---------------------------- MODULE Spec2Model ----------------------------
(***************************************************************************)
(* A model of osu2sm: the osu! -> StepMania converter.                     *)
(*                                                                         *)
(* The program is single threaded.  Each subsystem is modelled as a state  *)
(* machine of its own over one record-valued variable whose fields carry   *)
(* the names the source gives them:                                        *)
(*   rk   rekey / convert (node/rekey.rs, filter.rs)                       *)
(*   cv   the timing engine and the mania converter (node/osuload.rs)      *)
(*   pl   bucket resolution, the simfile store and the driver              *)
(*        (node.rs, transform.rs, main.rs)                                 *)
(*   sp   Space / Snap (transform/space.rs, transform/snap.rs)             *)
(*   al   Align (node/align.rs, transform/align.rs)                        *)
(*   sim  Simultaneous (node/simultaneous.rs)                              *)
(*   sel  Select / SimfileFix (node/select.rs, transform/simfilefix.rs)    *)
(*   fn   calls of the pure functions (KeyAlloc::alloc, ...)               *)
(*                                                                         *)
(* Beat positions are BeatPos.frac: whole 48ths of a beat ("ticks").       *)
(* Times of the timing engine are kept in 48ths of a millisecond, so that  *)
(* a beat length of b ms is exactly b time units per tick and every        *)
(* product the code forms is a whole number; f64 rounding error is not     *)
(* modelled.  Random choices (FastRng) are nondeterministic choices.       *)
(***************************************************************************)
EXTENDS Integers, Sequences, FiniteSets, TLC

VARIABLES rk, cv, pl, sp, al, sim, sel, fn

vars == <<rk, cv, pl, sp, al, sim, sel, fn>>

-----------------------------------------------------------------------------
(* Generic helpers                                                         *)

Range(s) == {s[i] : i \in DOMAIN s}

Abs(x) == IF x < 0 THEN -x ELSE x

Max2(a, b) == IF a >= b THEN a ELSE b

\* Vec::retain(|note| note.key >= 0)
RetainKept(notes) ==
    LET kept(n) == n.key >= 0
    IN  SelectSeq(notes, kept)

\* floor division and ceiling division by a positive divisor, for any sign
FloorDiv(a, b) == a \div b

CeilDiv(a, b) == -((-a) \div b)

-----------------------------------------------------------------------------
(* BeatPos and Note (simfile.rs)                                           *)

FIXED_POINT == 48

KIND_HIT == "1"
KIND_HEAD == "2"
KIND_TAIL == "3"

Note(kind, beat, key) == [kind |-> kind, beat |-> beat, key |-> key]

is_tail(note) == note.kind = KIND_TAIL

is_head(note) == note.kind = KIND_HEAD

\* BeatPos::ceil(step): the smallest multiple of step that is >= the
\* position; a step of 0 means "no rounding"
BeatCeil(frac, step) == IF step = 0 THEN frac ELSE CeilDiv(frac, step) * step

\* BeatPos::is_aligned(step)
is_aligned(frac, step) == IF step = 0 THEN TRUE ELSE frac % step = 0

\* BeatPos::denominator(): the denominator of frac/48 in lowest terms
RECURSIVE Gcd(_, _)
Gcd(a, b) == IF b = 0 THEN a ELSE Gcd(b, a % b)

denominator(frac) == FIXED_POINT \div Gcd(FIXED_POINT, Abs(frac) % FIXED_POINT)

-----------------------------------------------------------------------------
(* Well-formed charts: the input domain of the chart transforms.           *)
(* Notes sorted by beat; a head is followed by its tail on the same key,   *)
(* at a later beat, with no other note on that key in between.             *)

\* index of the last note on `key`, 0 if none
LastOnKey(notes, key) ==
    LET S == {i \in DOMAIN notes : notes[i].key = key}
    IN  IF S = {} THEN 0 ELSE CHOOSE i \in S : \A j \in S : j <= i

HoldOpen(notes, key) ==
    LastOnKey(notes, key) # 0 /\ is_head(notes[LastOnKey(notes, key)])

CanAppend(notes, n) ==
    /\ notes # <<>> => n.beat >= notes[Len(notes)].beat
    /\ IF is_tail(n)
       THEN HoldOpen(notes, n.key) /\ n.beat > notes[LastOnKey(notes, n.key)].beat
       ELSE ~HoldOpen(notes, n.key)

Complete(notes, key_count) == \A k \in 0..(key_count - 1) : ~HoldOpen(notes, k)

Kinds == {KIND_HIT, KIND_HEAD, KIND_TAIL}

\* index of the tail that closes the head at index i (0 if there is none):
\* the first later tail on the same key
TailOf(notes, i) ==
    LET S == {j \in DOMAIN notes : j > i /\ notes[j].key = notes[i].key /\ is_tail(notes[j])}
    IN  IF S = {} THEN 0 ELSE CHOOSE j \in S : \A l \in S : j <= l

Sorted(notes) == \A i \in 1..(Len(notes) - 1) : notes[i].beat <= notes[i + 1].beat

\* every head is followed on its key by a tail, every tail follows a head
\* on its key, nothing in between
Paired(notes) ==
    \A i \in DOMAIN notes :
        LET before == {j \in DOMAIN notes : j < i /\ notes[j].key = notes[i].key}
            after  == {j \in DOMAIN notes : j > i /\ notes[j].key = notes[i].key}
            prev == IF before = {} THEN 0 ELSE CHOOSE j \in before : \A l \in before : l <= j
            next == IF after = {} THEN 0 ELSE CHOOSE j \in after : \A l \in after : j <= l
        IN  /\ is_head(notes[i]) => next # 0 /\ is_tail(notes[next])
            /\ is_tail(notes[i]) => prev # 0 /\ is_head(notes[prev])

StrictHolds(notes) ==
    \A i \in DOMAIN notes :
        is_head(notes[i]) /\ TailOf(notes, i) # 0
            => notes[i].beat < notes[TailOf(notes, i)].beat

WellFormed(notes) == Sorted(notes) /\ Paired(notes) /\ StrictHolds(notes)

-----------------------------------------------------------------------------
(* Bounds of the chart generators                                          *)

MaxNotes == 5
MaxInKeys == 2
MaxOutKeys == 2
MaxBeat == 2

-----------------------------------------------------------------------------
(* rekey (node/rekey.rs); filter.rs convert() runs the same loop           *)

others_rk == <<cv, pl, sp, al, sim, sel, fn>>

\* Option<Option<BeatPos>>: None, Some(None), Some(Some(beat))
LockNone == [locked |-> FALSE, tail |-> FALSE, beat |-> 0]
LockUntilTail == [locked |-> TRUE, tail |-> TRUE, beat |-> 0]
\* a hit that leaves its out-key free
LockNotTaken(b) == [locked |-> FALSE, tail |-> FALSE, beat |-> 0]
LockUntilBeat(b) == [locked |-> TRUE, tail |-> FALSE, beat |-> b]

RkIdle ==
    [pc |-> "idle", in_keycount |-> 0, out_keycount |-> 0, avoid_shuffle |-> FALSE,
     notes |-> <<>>, i |-> 0, locked_outkeys |-> <<>>, unlock_by_tails |-> <<>>,
     mapped |-> <<>>, out |-> <<>>, shuffled |-> FALSE]

RkInit ==
    /\ rk \in {[RkIdle EXCEPT !.pc = "gen", !.in_keycount = ik, !.out_keycount = ok,
                              !.avoid_shuffle = av] :
                  ik \in 1..MaxInKeys, ok \in 1..MaxOutKeys, av \in BOOLEAN}
    /\ cv = [pc |-> "idle"] /\ pl = [pc |-> "idle"] /\ sp = [pc |-> "idle"]
    /\ al = [pc |-> "idle"] /\ sim = [pc |-> "idle"]
    /\ sel = [pc |-> "idle"] /\ fn = [pc |-> "idle"]

\* the input chart: any well-formed chart of the input gamemode
RkGenNote ==
    /\ rk.pc = "gen"
    /\ Len(rk.notes) < MaxNotes
    /\ \E kind \in Kinds, beat \in 0..MaxBeat, key \in 0..(rk.in_keycount - 1) :
          /\ CanAppend(rk.notes, Note(kind, beat, key))
          /\ rk' = [rk EXCEPT !.notes = Append(@, Note(kind, beat, key))]
    /\ UNCHANGED others_rk

\* "Unlock any auto-unlocking keys"
AutoUnlock(locked_outkeys, beat) ==
    [k \in DOMAIN locked_outkeys |->
        IF /\ locked_outkeys[k].locked
           /\ ~locked_outkeys[k].tail
           /\ beat > locked_outkeys[k].beat
        THEN LockNone ELSE locked_outkeys[k]]

\* choose_tmp_buf: the outkeys that are not locked
FreeOutkeys(locked_outkeys) == {k \in DOMAIN locked_outkeys : ~locked_outkeys[k].locked}

\* KeyAlloc::alloc: a weighted random choice among `keys`; -1 stands for
\* None, returned when there is nothing to choose from
KeyAllocChoices(keys) == IF keys = {} THEN {-1} ELSE keys

\* the outkey a tail is mapped to
TailOutkey(st, note) == st.unlock_by_tails[note.key]

\* notes.retain(|note| note.key >= 0) on the remapped notes
RkRetained(notes, mapped) ==
    RetainKept([j \in DOMAIN notes |-> [notes[j] EXCEPT !.key = mapped[j]]])

\* lines 122-157: keycounts, the avoid_shuffle shortcut, the fresh state
rekey_begin(st) ==
    IF st.avoid_shuffle /\ st.in_keycount = st.out_keycount
    THEN [st EXCEPT !.pc = "done", !.out = st.notes]
    ELSE [st EXCEPT
            !.pc = IF st.notes = <<>> THEN "done" ELSE "run",
            !.shuffled = TRUE,
            !.i = 1,
            !.locked_outkeys = [k \in 0..(st.out_keycount - 1) |-> LockNone],
            !.unlock_by_tails = [k \in 0..(st.in_keycount - 1) |-> 0]]

rekey_start ==
    /\ rk.pc = "gen"
    /\ Complete(rk.notes, rk.in_keycount)
    /\ rk' = rekey_begin(rk)
    /\ UNCHANGED others_rk

\* lines 176-185: the out-keys alloc can return for the note at st.i; a
\* tail asks for none
rekey_choices(st) ==
    IF is_tail(st.notes[st.i]) THEN {}
    ELSE KeyAllocChoices(FreeOutkeys(AutoUnlock(st.locked_outkeys, st.notes[st.i].beat)))

\* lines 159-202: one turn of the loop over the notes, alloc having returned
\* out_key (unused for a tail); after the last note, lines 203-205
rekey_step(st, out_key) ==
    LET note == st.notes[st.i]
        unlocked == AutoUnlock(st.locked_outkeys, note.beat)
        last == st.i = Len(st.notes)
        finish(st1) ==
            IF last
            THEN [st1 EXCEPT !.pc = "done", !.out = RkRetained(st1.notes, st1.mapped)]
            ELSE [st1 EXCEPT !.i = @ + 1]
    IN  IF is_tail(note)
        THEN finish([st EXCEPT
                !.locked_outkeys = [unlocked EXCEPT ![TailOutkey(st, note)] = LockNone],
                !.mapped = Append(@, TailOutkey(st, note))])
        ELSE IF out_key = -1
        THEN finish([st EXCEPT !.locked_outkeys = unlocked,
                               !.mapped = Append(@, -1)])
        ELSE IF is_head(note)
        THEN finish([st EXCEPT
                !.locked_outkeys = [unlocked EXCEPT ![out_key] = LockUntilTail],
                !.unlock_by_tails = [@ EXCEPT ![note.key] = out_key],
                !.mapped = Append(@, out_key)])
        ELSE finish([st EXCEPT
                !.locked_outkeys =
                    [unlocked EXCEPT ![out_key] = LockUntilBeat(note.beat)],
                !.mapped = Append(@, out_key)])

\* one turn of the loop of rekey
rekey_note ==
    /\ rk.pc = "run"
    /\ IF rekey_choices(rk) = {}
       THEN rk' = rekey_step(rk, -1)
       ELSE \E out_key \in rekey_choices(rk) : rk' = rekey_step(rk, out_key)
    /\ UNCHANGED others_rk

RkNext == RkGenNote \/ rekey_start \/ rekey_note

SpecRekey == RkInit /\ [][RkNext]_vars

\* the input notes that were given an outkey, in order, under the keys given
RkKeptInput ==
    LET idx == SelectSeq([j \in DOMAIN rk.notes |-> j], LAMBDA j : rk.mapped[j] >= 0)
    IN  [j \in DOMAIN idx |-> [rk.notes[idx[j]] EXCEPT !.key = rk.mapped[idx[j]]]]

\* C1: rekeying (with shuffling) a well-formed chart yields a chart in which
\* every head has its tail next on the same out-key, every tail has such a
\* head, and the emitted notes are exactly the input notes that were given an
\* out-key.
C1_RekeyPreservesPairs ==
    rk.pc = "done" /\ rk.shuffled =>
        /\ Paired(rk.out)
        /\ StrictHolds(rk.out)
        /\ rk.out = RkKeptInput

-----------------------------------------------------------------------------
(* The timing engine: ConvCtx (node/osuload.rs)                            *)
(*                                                                         *)
(* Times are in 48ths of a millisecond ("units"), beat lengths in whole    *)
(* milliseconds per beat, that is units per tick.  A control point carries *)
(* its beat length as the fraction num/den units per tick.  The inherited  *)
(* multiplier is left out: the mania converter never reads it.             *)

others_cv == <<rk, pl, sp, al, sim, sel, fn>>

\* bounds of the beatmaps fed to the converter
MaxTps == 2
MaxObjs == 2
MaxTimeIdx == 4
TimeGrain == 5
MaxKey == 0

\* beat lengths of the absolute timing points (ms per beat)
BeatLenSlow == 960
BeatLenFast == 96
\* beatLength of an inherited timing point
BeatLenInherited == -100

MsUnits == FIXED_POINT

\* the meter of a timing point (the parser's default)
Meter == 4

\* "if (tp_time - next_tp.time).abs() >= 4."
DRIFT_MS == 4

CvTimes == {TimeGrain * MsUnits * k : k \in 0..MaxTimeIdx}

CvBeatLens == {BeatLenSlow, BeatLenFast, BeatLenInherited}

TimingPoint(time, beat_len) == [time |-> time, beat_len |-> beat_len]

\* a conversion that truncates toward zero instead of rounding
RoundDivTruncating(a, b) == IF a >= 0 THEN a \div b ELSE -((-a) \div b)

\* BeatPos::from(f64): (float * 48).round(), for the quotient a / b with
\* b > 0; f64::round rounds half away from zero
RoundDiv(a, b) ==
    IF a >= 0 THEN (2 * a + b) \div (2 * b) ELSE -((2 * (-a) + b) \div (2 * b))

\* BeatPos::round(step): the nearest multiple of step; `up` says which way
\* an exact tie goes
BeatRound(frac, step, up) ==
    IF step = 0 THEN frac
    ELSE IF up THEN FloorDiv(2 * frac + step, 2 * step) * step
    ELSE CeilDiv(2 * frac - step, 2 * step) * step

\* conf.rounding, in ticks: [4, 1, 0.5, 0.25, 0.125, 0] beats
rounding_list == <<4 * FIXED_POINT, FIXED_POINT, FIXED_POINT \div 2, FIXED_POINT \div 4,
                   FIXED_POINT \div 8, 0>>

\* the candidate gaps of the pivot search, in ticks; the last is EPSILON
beat_gaps == <<FIXED_POINT, FIXED_POINT \div 2, FIXED_POINT \div 4, FIXED_POINT \div 8,
               FIXED_POINT \div 16, 1>>

\* ConvCtx::new, lines 392-409: the last absolute timing point at or before
\* the first hit, else the first absolute one; 0 if there is none
first_tp_idx(tps, first_hit_time) ==
    LET abs == {i \in DOMAIN tps : tps[i].beat_len > 0}
        before == {i \in abs : tps[i].time <= first_hit_time}
    IN  IF before # {} THEN CHOOSE i \in before : \A j \in before : j <= i
        ELSE IF abs # {} THEN CHOOSE i \in abs : \A j \in abs : i <= j
        ELSE 0

\* lines 412-417: move the first timing point by whole measures
first_tp(tps, first_hit_time) ==
    LET tp == tps[first_tp_idx(tps, first_hit_time)]
        round_to == tp.beat_len * Meter * MsUnits
    IN  [tp EXCEPT !.time = @ + FloorDiv(first_hit_time - tp.time, round_to) * round_to]

\* lines 428-444: does rounding to round_to alias two timing points?
RECURSIVE no_aliasing(_, _, _, _, _, _)
no_aliasing(tps, i, cur_tp, cur_beat, round_to, up) ==
    IF i > Len(tps) THEN TRUE
    ELSE IF tps[i].beat_len > 0
    THEN LET beat_adv ==
                 BeatRound(RoundDiv(tps[i].time - cur_tp.time, cur_tp.beat_len), round_to, up)
         IN  IF tps[i].time # cur_tp.time /\ beat_adv = 0
             THEN FALSE
             ELSE no_aliasing(tps, i + 1, tps[i], cur_beat + beat_adv, round_to, up)
    ELSE no_aliasing(tps, i + 1, cur_tp, cur_beat, round_to, up)

\* lines 425-450: the first rounding of the list that does not alias
final_rounding(tps, first_hit_time, up) ==
    LET idx == first_tp_idx(tps, first_hit_time)
        good == {r \in DOMAIN rounding_list :
                    no_aliasing(tps, idx + 1, first_tp(tps, first_hit_time), 0,
                                rounding_list[r], up)}
    IN  IF good = {} THEN 0
        ELSE rounding_list[CHOOSE r \in good : \A q \in good : r <= q]

ControlPoint(beat, num, den) == [beat |-> beat, num |-> num, den |-> den]

\* lines 452-470
ConvCtxNew(tps, first_hit_time, up) ==
    LET ftp == first_tp(tps, first_hit_time)
    IN  [cur_tp |-> ftp,
         rest_tp |-> first_tp_idx(tps, first_hit_time) + 1,
         cur_time |-> ftp.time,
         cur_beat |-> 0,
         rounding |-> final_rounding(tps, first_hit_time, up),
         out_offset |-> -ftp.time,
         out_bpms |-> <<ControlPoint(0, ftp.beat_len, 1)>>,
         out_notes |-> <<>>,
         no_pivot |-> FALSE,
         ret |-> 0]

\* a search that prefers the finest gap
find_pivot_finest(pivot_max, last_beat) ==
    LET ok == {g \in DOMAIN beat_gaps :
                  BeatCeil(pivot_max, beat_gaps[g]) - beat_gaps[g] >= last_beat}
        g0 == CHOOSE g \in ok : \A h \in ok : h <= g
    IN  IF ok = {} THEN [found |-> FALSE, beat |-> 0]
        ELSE [found |-> TRUE, beat |-> BeatCeil(pivot_max, beat_gaps[g0]) - beat_gaps[g0]]

\* lines 495-518: the first gap whose pivot is not before last_beat
find_pivot(pivot_max, last_beat) ==
    LET ok == {g \in DOMAIN beat_gaps :
                  BeatCeil(pivot_max, beat_gaps[g]) - beat_gaps[g] >= last_beat}
        g0 == CHOOSE g \in ok : \A h \in ok : g <= h
    IN  IF ok = {} THEN [found |-> FALSE, beat |-> 0]
        ELSE [found |-> TRUE, beat |-> BeatCeil(pivot_max, beat_gaps[g0]) - beat_gaps[g0]]

\* lines 490-552: advance to the absolute timing point next_tp
advance_tp(c, next_tp) ==
    LET raw_beat_adv == next_tp.time - c.cur_time
        ceil_adv == CeilDiv(raw_beat_adv, c.cur_tp.beat_len)
        beat_adv == BeatCeil(ceil_adv, c.rounding)
        tp_beat == c.cur_beat + beat_adv
        tp_time == c.cur_time + beat_adv * c.cur_tp.beat_len
        drifts == Abs(tp_time - next_tp.time) >= DRIFT_MS * MsUnits
        last_beat == Max2(IF c.out_notes = <<>> THEN 0
                          ELSE c.out_notes[Len(c.out_notes)].beat, c.cur_beat)
        pivot == find_pivot(c.cur_beat + ceil_adv, last_beat)
        time_to_pivot == (pivot.beat - c.cur_beat) * c.cur_tp.beat_len
        consume_time == raw_beat_adv - time_to_pivot
        consume_beats == tp_beat - pivot.beat
        corrected == drifts /\ pivot.found
        bpms1 == IF corrected
                 THEN Append(c.out_bpms, ControlPoint(pivot.beat, consume_time, consume_beats))
                 ELSE c.out_bpms
        tp_time1 == IF corrected
                    THEN c.cur_time + time_to_pivot
                           + (consume_beats * consume_time) \div consume_beats
                    ELSE tp_time
    IN  [c EXCEPT !.cur_beat = tp_beat,
                  !.cur_time = tp_time1,
                  !.cur_tp = next_tp,
                  !.out_bpms = Append(bpms1, ControlPoint(tp_beat, next_tp.beat_len, 1)),
                  !.no_pivot = @ \/ (drifts /\ ~pivot.found)]

\* lines 483-559: the loop over the timing points at or before `time`
RECURSIVE advance_all(_, _, _)
advance_all(c, tps, time) ==
    IF c.rest_tp > Len(tps) THEN c
    ELSE IF time >= tps[c.rest_tp].time
    THEN IF tps[c.rest_tp].beat_len <= 0
         THEN advance_all([c EXCEPT !.rest_tp = @ + 1], tps, time)
         ELSE advance_all([advance_tp(c, tps[c.rest_tp]) EXCEPT !.rest_tp = @ + 1], tps, time)
    ELSE c

\* a get_beat that never leaves the current timing point
get_beat_without_advance(c, tps, time) ==
    [c EXCEPT !.ret = c.cur_beat + RoundDiv(time - c.cur_tp.time, c.cur_tp.beat_len)]

\* ConvCtx::get_beat: the context after the call, the beat in .ret
get_beat(c, tps, time) ==
    LET d == advance_all(c, tps, time)
    IN  [d EXCEPT !.ret = d.cur_beat + RoundDiv(time - d.cur_tp.time, d.cur_tp.beat_len)]

\* ConvCtx::push_note
push_note(c, beat, key, kind) == [c EXCEPT !.out_notes = Append(@, Note(kind, beat, key))]

-----------------------------------------------------------------------------
(* The mania converter: process_mania (node/osuload.rs)                    *)

\* sorted timing-point lists, as the parser supplies them
RECURSIVE TpLists(_)
TpLists(n) ==
    IF n = 0 THEN {<<>>}
    ELSE LET shorter == TpLists(n - 1)
         IN  shorter \cup
             {Append(l, TimingPoint(t, b)) : l \in {m \in shorter : Len(m) = n - 1},
                                              t \in CvTimes, b \in CvBeatLens}

SortedTps(tps) == \A i \in 1..(Len(tps) - 1) : tps[i].time <= tps[i + 1].time

\* the beatmaps ConvCtx::new accepts: at least one absolute timing point
CvBeatmaps ==
    {tps \in TpLists(MaxTps) : SortedTps(tps) /\ \E i \in DOMAIN tps : tps[i].beat_len > 0}

\* one call of get_beat, as seen from outside: the time asked for, the beat
\* returned, the time ToTime gives back for that beat, the beat length in
\* force, and whether the hypotheses of the drift bound held at the call
GetBeatCall(c, time, mono) ==
    [time |-> time, beat |-> c.ret, beat_len |-> c.cur_tp.beat_len,
     bpms |-> c.out_bpms, offset |-> c.out_offset,
     monotone |-> mono, no_pivot |-> c.no_pivot]

\* process_beatmap, line 677: the converter once ConvCtx::new has returned Ok
CvStart(tps, first, up) ==
    [pc |-> "objects",
     timing_points |-> tps,
     first_hit_time |-> first,
     conv |-> ConvCtxNew(tps, IF first = -1 THEN tps[1].time ELSE first, up),
     pending_tails |-> <<>>,
     n_objs |-> 0,
     last_obj_time |-> -1,
     last_time |-> -1,
     monotone |-> TRUE,
     calls |-> <<>>]

CvInit ==
    /\ \E tps \in CvBeatmaps, first \in CvTimes \cup {-1}, up \in BOOLEAN :
          cv = CvStart(tps, first, up)
    /\ rk = RkIdle /\ pl = [pc |-> "idle"] /\ sp = [pc |-> "idle"]
    /\ al = [pc |-> "idle"] /\ sim = [pc |-> "idle"]
    /\ sel = [pc |-> "idle"] /\ fn = [pc |-> "idle"]

\* lines 717-727 and 768-771: emit, in order, the first n pending tails
RECURSIVE flush_tails(_, _, _)
flush_tails(st, tps, n) ==
    IF n = 0 THEN st
    ELSE LET tail == st.pending_tails[1]
             c == get_beat(st.conv, tps, tail.time)
             mono == st.monotone /\ tail.time >= st.last_time
         IN  flush_tails([st EXCEPT
                 !.conv = push_note(c, c.ret, tail.key, KIND_TAIL),
                 !.pending_tails = Tail(@),
                 !.monotone = mono,
                 !.last_time = tail.time,
                 !.calls = Append(@, GetBeatCall(c, tail.time, mono))], tps, n - 1)

\* pending_tails is kept sorted by time, so the due tails are a prefix
due_tails(pending, time) == Cardinality({i \in DOMAIN pending : pending[i].time <= time})

\* lines 755-759
insert_tail(pending, end_time, key) ==
    LET later == {i \in DOMAIN pending : pending[i].time > end_time}
        insert_idx == IF later = {} THEN Len(pending) + 1
                      ELSE CHOOSE i \in later : \A j \in later : i <= j
    IN  SubSeq(pending, 1, insert_idx - 1) \o <<[time |-> end_time, key |-> key]>>
            \o SubSeq(pending, insert_idx, Len(pending))

\* lines 715-766: the hit object at `time` on `key`, a hold up to end_time
\* if `long`
mania_object(st, time, key, long, end_time) ==
    LET st0 == [st EXCEPT !.calls = <<>>]
        st1 == flush_tails(st0, st.timing_points, due_tails(st.pending_tails, time))
        c == get_beat(st1.conv, st.timing_points, time)
        mono == st1.monotone /\ time >= st1.last_time
    IN  [st1 EXCEPT
            !.conv = push_note(c, c.ret, key, IF long THEN KIND_HEAD ELSE KIND_HIT),
            !.pending_tails = IF long THEN insert_tail(@, end_time, key) ELSE @,
            !.n_objs = @ + 1,
            !.last_obj_time = time,
            !.monotone = mono,
            !.last_time = time,
            !.calls = Append(@, GetBeatCall(c, time, mono))]

\* lines 715-766: one hit object; hit objects come sorted by time, the
\* first at first_hit_time
process_mania_object ==
    /\ cv.pc = "objects"
    /\ cv.first_hit_time # -1
    /\ cv.n_objs < MaxObjs
    /\ \E time \in CvTimes, key \in 0..MaxKey, long \in BOOLEAN, end_time \in CvTimes :
          /\ IF cv.n_objs = 0 THEN time = cv.first_hit_time ELSE time >= cv.last_obj_time
          /\ ~long => end_time = time
          /\ cv' = mania_object(cv, time, key, long, end_time)
    /\ UNCHANGED others_cv

\* lines 767-771: after the last object, push out the pending tails
process_mania_finish ==
    /\ cv.pc = "objects"
    /\ cv.first_hit_time = -1 => cv.n_objs = 0
    /\ cv.first_hit_time # -1 => cv.n_objs > 0
    /\ cv' = [flush_tails([cv EXCEPT !.calls = <<>>], cv.timing_points,
                          Len(cv.pending_tails)) EXCEPT !.pc = "done"]
    /\ UNCHANGED others_cv

CvNext == process_mania_object \/ process_mania_finish

SpecConv == CvInit /\ [][CvNext]_vars

\* ToTime: the time (units) of `beat` under the control points `bpms`:
\* minus the offset, plus the beat spans times their beat lengths
RECURSIVE SpanTime(_, _, _)
SpanTime(bpms, i, beat) ==
    IF i = Len(bpms)
    THEN ((beat - bpms[i].beat) * bpms[i].num) \div bpms[i].den
    ELSE ((bpms[i + 1].beat - bpms[i].beat) * bpms[i].num) \div bpms[i].den
            + SpanTime(bpms, i + 1, beat)

beat_to_time(bpms, offset, beat) == SpanTime(bpms, 1, beat) - offset

CallError(call) == beat_to_time(call.bpms, call.offset, call.beat) - call.time

\* a correction control point is one whose beat length is a proper fraction
HasCorrection(bpms) == \E i \in DOMAIN bpms : bpms[i].den # 1

\* C2: every chart the converter produces from hit objects sorted by time
\* has its notes in non-decreasing beat order, and every head is followed by
\* its tail on the same key at a strictly greater beat, nothing in between.
C2_ConverterChartWellFormed ==
    cv.pc = "done" => WellFormed(cv.conv.out_notes)

StrictlyIncreasingBeats(bpms) ==
    \A i \in 1..(Len(bpms) - 1) : bpms[i].beat < bpms[i + 1].beat

\* C6: the emitted control points start at beat 0 and their beats strictly
\* increase, pivots and same-time timing points included.
C6_ControlPointsStrictlyIncreasing ==
    cv.pc = "done" =>
        /\ cv.conv.out_bpms[1].beat = 0
        /\ StrictlyIncreasingBeats(cv.conv.out_bpms)

\* the calls the drift bound speaks of: times asked in non-decreasing order,
\* every advance so far needed no correction or found a pivot
DriftBoundApplies(call) == call.monotone /\ ~call.no_pivot

\* C7 as stated: for such a call the reconstructed time is within 4 ms of
\* the time asked for.
C7_DriftWithin4ms ==
    \A i \in DOMAIN cv.calls :
        DriftBoundApplies(cv.calls[i]) =>
            Abs(CallError(cv.calls[i])) <= DRIFT_MS * MsUnits

\* C7 amended: for such a call the reconstructed time is within 4 ms plus
\* half a tick (1/96 of the beat length in force) of the time asked for.
C7_DriftWithin4msPlusHalfTick ==
    \A i \in DOMAIN cv.calls :
        DriftBoundApplies(cv.calls[i]) =>
            2 * Abs(CallError(cv.calls[i])) <=
                2 * DRIFT_MS * MsUnits + cv.calls[i].beat_len

\* a call after a correction at a pivot, answered more than 4 ms off
C7_Witness ==
    \E i \in DOMAIN cv.calls :
        /\ DriftBoundApplies(cv.calls[i])
        /\ HasCorrection(cv.calls[i].bpms)
        /\ Abs(CallError(cv.calls[i])) > DRIFT_MS * MsUnits

-----------------------------------------------------------------------------
(* Bucket resolution: resolve_buckets (node.rs, transform.rs)              *)

others_pl == <<rk, cv, sp, al, sim, sel, fn>>

\* Option<&str>::None for a layer's input or output
NONE == "<none>"

\* BucketId
Auto == [k |-> "Auto", name |-> "", list |-> <<>>]
Null == [k |-> "Null", name |-> "", list |-> <<>>]
Name(name) == [k |-> "Name", name |-> name, list |-> <<>>]
Nest(list) == [k |-> "Nest", name |-> "", list |-> list]

\* BucketId::Resolved(name, take) given as the id of a port
ResolvedId(name, take) == [k |-> "Resolved", name |-> name, list |-> <<>>, take |-> take]

\* BucketId::Resolved(name, take) on a port of kind Input or Output
Resolved(kind, name, take) == [kind |-> kind, name |-> name, take |-> take]

\* format!("~{}", next_id) for next_id = 1, 2, ...
GenNames ==
    <<"~1", "~2", "~3", "~4", "~5", "~6", "~7", "~8",
      "~9", "~10", "~11", "~12", "~13", "~14", "~15", "~16",
      "~17", "~18", "~19", "~20", "~21", "~22", "~23", "~24",
      "~25", "~26", "~27", "~28", "~29", "~30", "~31", "~32">>

\* a generator whose counter never advances
gen_unique_name_stale(next_id) == GenNames[1]

\* State::gen_unique_name: the name made after the increment
gen_unique_name(next_id) == GenNames[next_id + 1]

\* name.starts_with("~"), over the names the model uses
starts_with_tilde(name) == name \in {GenNames[i] : i \in DOMAIN GenNames} \cup {"~in", "~out"}

\* a push to the end in place of the insert
InsertAtEnd(seq, idx, x) == Append(seq, x)

\* Vec::insert(idx, x) with a 0-based idx
InsertAt(seq, idx, x) == SubSeq(seq, 1, idx) \o <<x>> \o SubSeq(seq, idx + 1, Len(seq))

\* an error that is dropped instead of returned
Fail_dropped(ctx, why) == ctx

\* bail!, ensure! and `?`: resolution ends with the error
Fail(ctx, why) == [ctx EXCEPT !.err = why]

\* every node bound to the output of the layer, chained or not
always_magnetic_out(chained, i, node_count, output) == output

\* the output an Auto output port of node i is bound to, if any: the
\* layer's output for the last node, and for every node when not chained
layer_magnetic_out(chained, i, node_count, output) ==
    IF ~chained \/ i = node_count THEN output ELSE NONE

RECURSIVE resolve_nodes(_, _, _, _, _, _, _)

\* resolve_layer: every node of `nodes`, in order
resolve_layer(ctx, input, output, nodes, chained) ==
    resolve_nodes(ctx, input, output, nodes, chained, 1, input)

\* "Resolve each bucket": port j of one node; ps carries ctx,
\* last_magnetic_out, magnetic_out, insert_idx and the ports resolved so far
RECURSIVE resolve_ports(_, _, _)
resolve_ports(ps, node, j) ==
    IF j > Len(node.ports) \/ ps.ctx.err # "" THEN ps
    ELSE
    LET kind == node.ports[j].kind
        id == node.ports[j].id
        bound(ps1, name) ==
            resolve_ports([ps1 EXCEPT !.ports = Append(@, Resolved(kind, name, FALSE))],
                          node, j + 1)
        fresh == gen_unique_name(ps.ctx.next_id)
        after_fresh == [ps EXCEPT !.ctx.next_id = @ + 1]
    IN  CASE id.k = "Auto" /\ kind = "Input" ->
               IF ps.last_magnetic_out = NONE
               THEN [ps EXCEPT !.ctx = Fail(@, "previous does not output")]
               ELSE bound([ps EXCEPT !.last_magnetic_out = NONE], ps.last_magnetic_out)
          [] id.k = "Auto" /\ kind = "Output" ->
               IF ps.magnetic_out = NONE
               THEN bound([after_fresh EXCEPT !.magnetic_out = fresh], fresh)
               ELSE bound(ps, ps.magnetic_out)
          [] id.k = "Name" ->
               IF starts_with_tilde(id.name)
               THEN [ps EXCEPT !.ctx = Fail(@, "reserved name")]
               ELSE bound(ps, id.name)
          [] id.k = "Nest" /\ kind = "Input" ->
               IF ps.last_magnetic_out = NONE
               THEN [ps EXCEPT !.ctx = Fail(@, "previous does not output")]
               ELSE LET into_nested == ps.last_magnetic_out
                        from_nested == fresh
                        inner == resolve_layer(after_fresh.ctx, into_nested, from_nested,
                                               id.list, FALSE)
                    IN  bound([ps EXCEPT !.ctx = inner,
                                         !.last_magnetic_out = NONE,
                                         !.insert_idx = Len(inner.out)], from_nested)
          [] id.k = "Nest" /\ kind = "Output" ->
               LET into_nested == fresh
                   ps1 == IF ps.magnetic_out = NONE
                          THEN [after_fresh EXCEPT
                                   !.magnetic_out = gen_unique_name(after_fresh.ctx.next_id),
                                   !.ctx.next_id = @ + 1]
                          ELSE after_fresh
                   inner == resolve_layer(ps1.ctx, into_nested, ps1.magnetic_out,
                                          id.list, FALSE)
               IN  bound([ps1 EXCEPT !.ctx = inner], into_nested)
          [] id.k = "Null" -> bound(ps, "")
          [] id.k = "Resolved" ->
               [ps EXCEPT !.ctx = Fail(@, "resolved buckets cannot be used directly")]

\* the loop of resolve_layer from node i on
resolve_nodes(ctx, input, output, nodes, chained, i, last_magnetic_out) ==
    IF i > Len(nodes) \/ ctx.err # "" THEN ctx
    ELSE
    LET magnetic_out == layer_magnetic_out(chained, i, Len(nodes), output)
        last_out == IF ~chained THEN input ELSE last_magnetic_out
        ps == resolve_ports([ctx |-> ctx, last_magnetic_out |-> last_out,
                             magnetic_out |-> magnetic_out, insert_idx |-> Len(ctx.out),
                             ports |-> <<>>], nodes[i], 1)
        node == [tag |-> nodes[i].tag, ports |-> ps.ports]
    IN  IF ps.ctx.err # "" THEN ps.ctx
        ELSE IF ~(ps.last_magnetic_out = NONE \/ i = 1)
        THEN Fail(ps.ctx, "output of previous is not used")
        ELSE resolve_nodes([ps.ctx EXCEPT !.out = InsertAt(@, ps.insert_idx, node)],
                           input, output, nodes, chained, i + 1, ps.magnetic_out)

\* the input ports <<node, port>> of `out` that read `name`
Readers(out, name) ==
    UNION {{<<i, j>> : j \in {q \in DOMAIN out[i].ports :
                                 /\ out[i].ports[q].kind = "Input"
                                 /\ out[i].ports[q].name = name}} : i \in DOMAIN out}

Before(p, q) == p[1] < q[1] \/ (p[1] = q[1] /\ p[2] < q[2])

\* a reader that keeps the first insert instead of the last
first_reads(out, name) ==
    CHOOSE p \in Readers(out, name) : \A q \in Readers(out, name) : q = p \/ Before(p, q)

\* last_reads: HashMap::insert in execution order leaves the last reader
last_reads(out, name) ==
    CHOOSE p \in Readers(out, name) : \A q \in Readers(out, name) : q = p \/ Before(q, p)

\* "*take = true" on every port left in last_reads
set_takes(out) ==
    [i \in DOMAIN out |->
        [out[i] EXCEPT !.ports =
            [j \in DOMAIN out[i].ports |->
                [out[i].ports[j] EXCEPT !.take =
                    /\ out[i].ports[j].kind = "Input"
                    /\ last_reads(out, out[i].ports[j].name) = <<i, j>>]]]]

\* resolve_buckets: the layers from the top, then the last reads
resolve_buckets(nodes, input, output) ==
    LET ctx == resolve_layer([out |-> <<>>, next_id |-> 0, err |-> ""],
                             input, output, nodes, TRUE)
    IN  IF ctx.err # "" THEN ctx ELSE [ctx EXCEPT !.out = set_takes(@)]

-----------------------------------------------------------------------------
(* The simfile store: Bucket and SimfileStore (node.rs, transform.rs)      *)
(* A simfile is the sequence of the tags of the stages it went through.    *)

EmptyBucket == [simfiles |-> <<>>, lists |-> <<>>]

\* Bucket::put_list
put_list(b, list) ==
    [simfiles |-> b.simfiles \o list, lists |-> Append(b.lists, Len(b.simfiles) + Len(list))]

\* the lists of a bucket, in the order they were put
BucketLists(b) ==
    [k \in DOMAIN b.lists |->
        SubSeq(b.simfiles, (IF k = 1 THEN 0 ELSE b.lists[k - 1]) + 1, b.lists[k])]

\* a take_lists that hands the lists over front to back
take_lists_in_order(b) == BucketLists(b)

\* Bucket::take_lists: the lists in the order they are handed to `consume`:
\* drained from the back of the flat vector, the first list last
take_lists(b) ==
    LET n == Len(b.lists)
    IN  [k \in 1..n |-> BucketLists(b)[n + 1 - k]]

\* SimfileStore::put
put(store, name, list) ==
    IF name = "" THEN store
    ELSE IF name \in DOMAIN store
    THEN [store EXCEPT ![name] = put_list(@, list)]
    ELSE [n \in DOMAIN store \cup {name} |->
             IF n = name THEN put_list(EmptyBucket, list) ELSE store[n]]

\* HashMap::remove
remove(store, name) == [n \in DOMAIN store \ {name} |-> store[n]]

\* what a stage does to a list before putting it into its output
Transformed(list, tag) == [k \in DOMAIN list |-> Append(list[k], tag)]

\* the visitor of a stage, once per list: store.put(&self.into, list)
RECURSIVE visit_all(_, _, _, _)
visit_all(store, lists, into, tag) ==
    IF lists = <<>> THEN store
    ELSE visit_all(put(store, into, Transformed(Head(lists), tag)), Tail(lists), into, tag)

\* a get that removes the bucket whatever the flag says
store_get_always_take(store, name, take, into, tag, fails) ==
    IF name = "" \/ name \notin DOMAIN store
    THEN [store |-> store, visited |-> <<>>, err |-> FALSE]
    ELSE LET lists == take_lists(store[name])
         IN  IF fails /\ lists # <<>>
             THEN [store |-> remove(store, name), visited |-> <<lists[1]>>, err |-> TRUE]
             ELSE [store |-> visit_all(remove(store, name), lists, into, tag),
                   visited |-> lists, err |-> FALSE]

\* SimfileStore::get with the visitor of a stage that puts into `into`; a
\* visitor that `fails` returns an error for the first list it is handed
store_get(store, name, take, into, tag, fails) ==
    IF name = "" \/ name \notin DOMAIN store
    THEN [store |-> store, visited |-> <<>>, err |-> FALSE]
    ELSE LET lists == take_lists(store[name])
             store1 == IF take THEN remove(store, name) ELSE store
         IN  IF fails /\ lists # <<>>
             THEN [store |-> store1, visited |-> <<lists[1]>>, err |-> TRUE]
             ELSE [store |-> visit_all(store1, lists, into, tag),
                   visited |-> lists, err |-> FALSE]

\* SimfileStore::reset(input) of transform.rs
reset(input) == put(<<>>, "~in", input)

-----------------------------------------------------------------------------
(* The driver: process_beatmapset (main.rs) over the resolved pipeline     *)

\* bounds of the pipelines
MaxStages == 3
MaxNestStages == 2
MaxNested == 2
MaxSets == 2

Port(kind, id) == [kind |-> kind, id |-> id]

\* a stage with an input and an output (from, into)
IoNode(tag, from, into) ==
    [tag |-> tag, ports |-> <<Port("Input", from), Port("Output", into)>>]

\* OsuLoad: two outputs (mania.into, standard.into)
SrcNode(tag, mania, standard) ==
    [tag |-> tag, ports |-> <<Port("Output", mania), Port("Output", standard)>>]

\* SimfileWrite: an input only
SinkNode(tag, from) == [tag |-> tag, ports |-> <<Port("Input", from)>>]

LeafIds == {Auto, Null, Name("a")}

InnerIds == {Auto, Name("a")}

\* the lists a Nest may hold: stages tagged 11, 12, ...
InnerLists ==
    UNION {{[j \in 1..n |-> IoNode(10 + j, f[j][1], f[j][2])] :
               f \in [1..n -> InnerIds \X InnerIds]} : n \in 0..MaxNested}

LeafLists(n) ==
    {[i \in 1..n |-> IoNode(i, f[i][1], f[i][2])] : f \in [1..n -> LeafIds \X LeafIds]}

\* a list with one port of one stage replaced by a Nest
WithNest(list, i, p, inner) == [list EXCEPT ![i].ports[p].id = Nest(inner)]

TransformConfigs ==
    UNION {LeafLists(n) : n \in 0..MaxStages}
    \cup UNION {{WithNest(l, i, p, inner) :
                    l \in LeafLists(n), i \in 1..n, p \in 1..2, inner \in InnerLists} :
                n \in 1..MaxNestStages}

\* node pipelines: an OsuLoad, then stages and writers
NodeConfigs ==
    {<<SrcNode(1, m, st)>> \o rest :
        m \in LeafIds, st \in LeafIds,
        rest \in {<<>>} \cup {<<SinkNode(2, f)>> : f \in LeafIds}
                 \cup {<<IoNode(2, f, t), SinkNode(3, g)>> :
                          f \in LeafIds, t \in LeafIds, g \in LeafIds}}

PlIdle ==
    [pc |-> "idle", variant |-> "", nodes |-> <<>>, resolved |-> <<>>, err |-> "",
     store |-> <<>>, ip |-> 0, set |-> 0, failed_at |-> 0, applied |-> <<>>,
     output_taken |-> FALSE, output |-> <<>>, errors_logged |-> 0,
     reads |-> <<>>, last_get |-> <<>>, next_id |-> 0]

PlInit ==
    /\ pl \in {[PlIdle EXCEPT !.pc = "config", !.variant = "transform", !.nodes = c] :
                  c \in TransformConfigs}
              \cup {[PlIdle EXCEPT !.pc = "config", !.variant = "node", !.nodes = c] :
                       c \in NodeConfigs}
    /\ rk = RkIdle /\ cv = [pc |-> "idle"] /\ sp = [pc |-> "idle"]
    /\ al = [pc |-> "idle"] /\ sim = [pc |-> "idle"]
    /\ sel = [pc |-> "idle"] /\ fn = [pc |-> "idle"]

\* resolve_buckets at start-up: transform.rs binds the top layer to "~in"
\* and "~out", node.rs to nothing
ResolveBuckets ==
    /\ pl.pc = "config"
    /\ LET ctx == IF pl.variant = "transform"
                  THEN resolve_buckets(pl.nodes, "~in", "~out")
                  ELSE resolve_buckets(pl.nodes, NONE, NONE)
       IN  pl' = [pl EXCEPT !.pc = IF ctx.err # "" THEN "rejected"
                                   ELSE IF pl.variant = "transform" THEN "ready"
                                   ELSE "resolved",
                            !.err = ctx.err,
                            !.resolved = ctx.out,
                            !.next_id = ctx.next_id]
    /\ UNCHANGED others_pl

\* main.rs 376-377: a new beatmap set; its simfiles go to "~in"
process_beatmapset_reset ==
    /\ pl.pc = "ready"
    /\ pl.set < MaxSets
    /\ pl' = [pl EXCEPT !.pc = "run", !.set = @ + 1, !.store = reset(<<<<>>>>),
                        !.ip = 1, !.failed_at = 0, !.applied = <<>>,
                        !.output_taken = FALSE, !.output = <<>>, !.errors_logged = 0,
                        !.reads = <<>>, !.last_get = <<>>]
    /\ UNCHANGED others_pl

InputPort(node) == node.ports[CHOOSE j \in DOMAIN node.ports : node.ports[j].kind = "Input"]

OutputName(node) ==
    LET outs == {j \in DOMAIN node.ports : node.ports[j].kind = "Output"}
    IN  IF outs = {} THEN "" ELSE node.ports[CHOOSE j \in outs : TRUE].name

\* the store's bucket of that name, as its lists; <<>> if there is none
StoredLists(store, name) ==
    IF name \in DOMAIN store THEN BucketLists(store[name]) ELSE <<>>

\* main.rs 378-389: apply the next transform; an error is logged
apply_transform ==
    /\ pl.pc = "run"
    /\ pl.ip <= Len(pl.resolved)
    /\ \E fails \in BOOLEAN :
          LET node == pl.resolved[pl.ip]
              from == InputPort(node)
              into == OutputName(node)
              got == store_get(pl.store, from.name, from.take, into, node.tag, fails)
          IN  /\ fails => got.err
              /\ pl' = [pl EXCEPT
                    !.store = got.store,
                    !.ip = @ + 1,
                    !.applied = Append(@, pl.ip),
                    !.failed_at = IF got.err /\ @ = 0 THEN pl.ip ELSE @,
                    !.errors_logged = IF got.err THEN @ + 1 ELSE @,
                    !.reads = IF from.name = "" THEN @
                              ELSE Append(@, [stage |-> pl.ip, name |-> from.name,
                                              take |-> from.take,
                                              found |-> from.name \in DOMAIN pl.store]),
                    !.last_get = <<[name |-> from.name, take |-> from.take, into |-> into,
                                    present |-> from.name \in DOMAIN pl.store,
                                    before |-> StoredLists(pl.store, from.name),
                                    visited |-> got.visited,
                                    err |-> got.err,
                                    tag |-> node.tag,
                                    after_present |-> from.name \in DOMAIN got.store,
                                    after |-> StoredLists(got.store, from.name)]>>]
    /\ UNCHANGED others_pl

\* main.rs 390-392: sm_store.take_output() and the writing of the output
take_output ==
    /\ pl.pc = "run"
    /\ pl.ip > Len(pl.resolved)
    /\ pl' = [pl EXCEPT
          !.pc = "ready",
          !.output = IF "~out" \in DOMAIN pl.store THEN pl.store["~out"].simfiles ELSE <<>>,
          !.store = remove(pl.store, "~out"),
          !.output_taken = TRUE]
    /\ UNCHANGED others_pl

PlNext == ResolveBuckets \/ process_beatmapset_reset \/ apply_transform \/ take_output

SpecPipeline == PlInit /\ [][PlNext]_vars

PlResolvedOk == pl.pc \in {"resolved", "ready", "run"}

\* the input ports of the resolved pipeline
InputPorts(out) ==
    UNION {{<<i, j>> : j \in {q \in DOMAIN out[i].ports : out[i].ports[q].kind = "Input"}} :
              i \in DOMAIN out}

\* an input port that no later input port shares its name with
IsLastReader(out, p) ==
    \A q \in InputPorts(out) :
        out[q[1]].ports[q[2]].name = out[p[1]].ports[p[2]].name => q = p \/ Before(q, p)

\* C3: after resolve_buckets succeeds, the input port that reads a name last
\* in execution order has take = true and every other reader of the name has
\* take = false; in execution a read clones exactly when a later stage reads
\* the name too, and no name is read after the stage that took it.
C3_LastReaderTakes ==
    PlResolvedOk =>
        /\ \A p \in InputPorts(pl.resolved) :
              pl.resolved[p[1]].ports[p[2]].take = IsLastReader(pl.resolved, p)
        /\ \A a \in DOMAIN pl.reads :
              /\ ~pl.reads[a].take =
                    (\E i \in DOMAIN pl.resolved :
                        /\ i > pl.reads[a].stage
                        /\ Readers(pl.resolved, pl.reads[a].name) \cap ({i} \X {1, 2}) # {})
              /\ \A b \in DOMAIN pl.reads :
                    a < b /\ pl.reads[a].name = pl.reads[b].name => ~pl.reads[a].take

\* a set was run through a pipeline in which two stages read the same
\* bucket: the first read cloned it, the second took it
C3_Witness ==
    /\ pl.pc = "run"
    /\ pl.ip > Len(pl.resolved)
    /\ \E a \in DOMAIN pl.reads, b \in DOMAIN pl.reads :
          /\ a < b
          /\ pl.reads[a].name = pl.reads[b].name
          /\ pl.reads[a].found /\ pl.reads[b].found
          /\ ~pl.reads[a].take /\ pl.reads[b].take

\* the lists the visitor of the last get put into the bucket it was reading
PutBackByVisitor(g) ==
    IF g.into = g.name /\ ~g.err
    THEN [k \in DOMAIN g.visited |-> Transformed(g.visited[k], g.tag)]
    ELSE <<>>

\* the visitor is handed the bucket's lists, last list first, up to the
\* list on which it fails
HandedTheLists(g) ==
    IF g.err THEN g.before # <<>> /\ g.visited = <<g.before[Len(g.before)]>>
    ELSE g.visited = [k \in DOMAIN g.before |-> g.before[Len(g.before) + 1 - k]]

\* a get with take = true leaves in the store only what was put under that
\* name after the bucket was removed
TakeRemoves(g) ==
    g.take =>
        /\ g.after = PutBackByVisitor(g)
        /\ g.after_present = (PutBackByVisitor(g) # <<>>)

\* C4 as stated: a get with take = false hands the visitor the bucket's
\* lists and leaves the stored bucket with exactly the lists it had before
\* the call; a get with take = true removes the bucket.
C4_GetLeavesBucketUnchanged ==
    \A k \in DOMAIN pl.last_get :
        LET g == pl.last_get[k]
        IN  g.present =>
                /\ HandedTheLists(g)
                /\ ~g.take => g.after_present /\ g.after = g.before
                /\ TakeRemoves(g)

\* C4 amended: a get with take = false leaves the stored bucket with the
\* lists it had before the call, followed by the lists the visitor itself
\* put into that bucket during the call.
C4_GetKeepsListsPlusVisitorPuts ==
    \A k \in DOMAIN pl.last_get :
        LET g == pl.last_get[k]
        IN  g.present =>
                /\ HandedTheLists(g)
                /\ ~g.take => g.after_present /\ g.after = g.before \o PutBackByVisitor(g)
                /\ TakeRemoves(g)

\* a get with take = false whose visitor put into the bucket being read
C4_Witness ==
    \E k \in DOMAIN pl.last_get :
        /\ pl.last_get[k].present
        /\ ~pl.last_get[k].take
        /\ PutBackByVisitor(pl.last_get[k]) # <<>>

\* C5: once a stage's apply has returned an error for a beatmap set, no
\* later stage is applied to that set and no output is taken for it.
C5_ErrorAbortsSet ==
    pl.failed_at # 0 =>
        /\ \A k \in DOMAIN pl.applied : pl.applied[k] <= pl.failed_at
        /\ ~pl.output_taken

-----------------------------------------------------------------------------
(* Align (node/align.rs, transform/align.rs)                               *)

others_al == <<rk, cv, pl, sp, sim, sel, fn>>

\* beats of the charts given to the chart transforms: multiples of
\* BeatGrain ticks
MaxAlignNotes == 4
MaxAlignKeys == 2
BeatGrain == 12
MaxBeatIdx == 3

GridBeats == {k * BeatGrain : k \in 0..MaxBeatIdx}

\* conf.to as a BeatPos: half a beat, one beat
AlignSteps == {FIXED_POINT \div 2, FIXED_POINT}

\* the notes of `notes` at the indices in `keep`, in order
KeepIdx(notes, keep) ==
    LET F[i \in 0..Len(notes)] ==
            IF i = 0 THEN <<>>
            ELSE IF i \in keep THEN Append(F[i - 1], notes[i]) ELSE F[i - 1]
    IN  F[Len(notes)]

AlInit ==
    /\ al \in {[pc |-> "gen", key_count |-> kc, to |-> to, notes |-> <<>>,
                variant |-> NONE, out |-> <<>>] :
                  kc \in 1..MaxAlignKeys, to \in AlignSteps}
    /\ rk = RkIdle /\ cv = [pc |-> "idle"] /\ pl = [pc |-> "idle"]
    /\ sp = [pc |-> "idle"] /\ sim = [pc |-> "idle"]
    /\ sel = [pc |-> "idle"] /\ fn = [pc |-> "idle"]

\* the input chart: any well-formed chart
AlGenNote ==
    /\ al.pc = "gen"
    /\ Len(al.notes) < MaxAlignNotes
    /\ \E kind \in Kinds, beat \in GridBeats, key \in 0..(al.key_count - 1) :
          /\ CanAppend(al.notes, Note(kind, beat, key))
          /\ al' = [al EXCEPT !.notes = Append(@, Note(kind, beat, key))]
    /\ UNCHANGED others_al

\* node/align.rs lines 40-56: the marking loop from index i on
RECURSIVE align_mark(_, _, _)
align_mark(notes, i, align_to) ==
    IF i > Len(notes) THEN notes
    ELSE LET note == notes[i]
         IN  IF ~is_tail(note) /\ ~is_aligned(note.beat, align_to)
             THEN LET j == TailOf(notes, i)
                      marked == [notes EXCEPT ![i].key = -1]
                  IN  align_mark(IF is_head(note) /\ j # 0
                                 THEN [marked EXCEPT ![j].key = -1]
                                 ELSE marked,
                                 i + 1, align_to)
             ELSE align_mark(notes, i + 1, align_to)

\* node/align.rs align
node_align(notes, align_to) == RetainKept(align_mark(notes, 1, align_to))

\* transform/align.rs align
transform_align(notes, align_to) ==
    LET aligned(note) == is_aligned(note.beat, align_to)
    IN  SelectSeq(notes, aligned)

align_node ==
    /\ al.pc = "gen"
    /\ Complete(al.notes, al.key_count)
    /\ al' = [al EXCEPT !.pc = "done", !.variant = "node",
                        !.out = node_align(al.notes, al.to)]
    /\ UNCHANGED others_al

align_transform ==
    /\ al.pc = "gen"
    /\ Complete(al.notes, al.key_count)
    /\ al' = [al EXCEPT !.pc = "done", !.variant = "transform",
                        !.out = transform_align(al.notes, al.to)]
    /\ UNCHANGED others_al

AlNext == AlGenNote \/ align_node \/ align_transform

SpecAlign == AlInit /\ [][AlNext]_vars

\* index of the head that a tail closes: the last earlier note on its key
HeadOf(notes, j) ==
    LET S == {i \in DOMAIN notes : i < j /\ notes[i].key = notes[j].key}
    IN  IF S = {} THEN 0 ELSE CHOOSE i \in S : \A l \in S : l <= i

\* the indices Align is to remove: the non-tail notes off the grid and the
\* tails of the heads among them
AlignRemoves(notes, align_to) ==
    LET off == {i \in DOMAIN notes :
                    ~is_tail(notes[i]) /\ ~is_aligned(notes[i].beat, align_to)}
    IN  off \cup {j \in DOMAIN notes : is_tail(notes[j]) /\ HeadOf(notes, j) \in off}

\* C9: Align(to = s) removes exactly the non-tail notes whose beat is not a
\* multiple of s and the tails of the removed heads; every other note is
\* kept, unchanged and in order.
C9_AlignRemovesOffGridAndTheirTails ==
    al.pc = "done" =>
        al.out = KeepIdx(al.notes, DOMAIN al.notes \ AlignRemoves(al.notes, al.to))

-----------------------------------------------------------------------------
(* Simultaneous (node/simultaneous.rs)                                     *)

others_sim == <<rk, cv, pl, sp, al, sel, fn>>

MaxSimNotes == 4
MaxSimKeys == 3
MaxSimBeat == 2
MaxSimLimit == 2

SimIdle == [pc |-> "idle"]

SimInit ==
    /\ sim \in {[pc |-> "gen", key_count |-> kc, max_keys |-> m, notes |-> <<>>,
                 input |-> <<>>, note_idx |-> 0, active_notes |-> <<>>, out |-> <<>>] :
                   kc \in 1..MaxSimKeys, m \in 0..MaxSimLimit}
    /\ rk = RkIdle /\ cv = [pc |-> "idle"] /\ pl = [pc |-> "idle"]
    /\ sp = [pc |-> "idle"] /\ al = [pc |-> "idle"]
    /\ sel = [pc |-> "idle"] /\ fn = [pc |-> "idle"]

\* the input chart: any well-formed chart of the gamemode
SimGenNote ==
    /\ sim.pc = "gen"
    /\ Len(sim.notes) < MaxSimNotes
    /\ \E kind \in Kinds, beat \in 0..MaxSimBeat, key \in 0..(sim.key_count - 1) :
          /\ CanAppend(sim.notes, Note(kind, beat, key))
          /\ sim' = [sim EXCEPT !.notes = Append(@, Note(kind, beat, key))]
    /\ UNCHANGED others_sim

\* lines 56-75: the pass over the notes of one beat, from note_idx on
RECURSIVE scan_beat(_, _)
scan_beat(st, cur_beat) ==
    IF st.note_idx > Len(st.notes) \/ st.notes[st.note_idx].beat # cur_beat
    THEN st
    ELSE LET i == st.note_idx
             note == st.notes[i]
             next == [st EXCEPT !.note_idx = i + 1]
         IN  IF is_tail(note)
             THEN IF st.active_notes[note.key]
                  THEN scan_beat([next EXCEPT !.active_notes[note.key] = FALSE], cur_beat)
                  ELSE scan_beat([next EXCEPT !.notes[i].key = -1], cur_beat)
             ELSE IF is_head(note)
                  THEN scan_beat([next EXCEPT !.beat_notes = @ \cup {i},
                                              !.active_notes[note.key] = TRUE], cur_beat)
                  ELSE scan_beat([next EXCEPT !.beat_notes = @ \cup {i},
                                              !.tmp_active_notes = @ + 1], cur_beat)

\* a mistaken count that leaves one note too many
notes_to_remove_one_less(total_active_notes, max_simultaneous) ==
    IF total_active_notes > max_simultaneous + 1
    THEN total_active_notes - max_simultaneous - 1 ELSE 0

\* line 79: total_active_notes.saturating_sub(max_simultaneous)
notes_to_remove(total_active_notes, max_simultaneous) ==
    IF total_active_notes > max_simultaneous
    THEN total_active_notes - max_simultaneous ELSE 0

\* line 81: beat_notes.choose_multiple(rng, amount), any `amount` of them
\* (all of them if there are fewer)
choose_multiple(beat_notes, amount) ==
    {S \in SUBSET beat_notes :
        Cardinality(S) = IF amount < Cardinality(beat_notes)
                         THEN amount ELSE Cardinality(beat_notes)}

\* lines 82-87 for the chosen notes
remove_chosen(st, chosen) ==
    [st EXCEPT
        !.active_notes = [k \in DOMAIN @ |->
            IF \E i \in chosen : is_head(st.notes[i]) /\ st.notes[i].key = k
            THEN FALSE ELSE @[k]],
        !.notes = [i \in DOMAIN @ |->
            IF i \in chosen THEN [@[i] EXCEPT !.key = -1] ELSE @[i]]]

\* lines 40-50
limit_simultaneous_begin(st) ==
    [st EXCEPT
        !.pc = IF st.notes = <<>> THEN "done" ELSE "run",
        !.input = st.notes,
        !.note_idx = 1,
        !.active_notes = [k \in 0..(st.key_count - 1) |-> FALSE]]

limit_simultaneous_start ==
    /\ sim.pc = "gen"
    /\ Complete(sim.notes, sim.key_count)
    /\ sim' = limit_simultaneous_begin(sim)
    /\ UNCHANGED others_sim

\* lines 51-75: the scan of the beat block that starts at st.note_idx
scanned_block(st) ==
    scan_beat([notes |-> st.notes, note_idx |-> st.note_idx,
               active_notes |-> st.active_notes,
               beat_notes |-> {}, tmp_active_notes |-> 0],
              st.notes[st.note_idx].beat)

\* lines 76-81: what choose_multiple can return for that block
block_choices(st) ==
    LET scanned == scanned_block(st)
        total_active_notes ==
            Cardinality({k \in DOMAIN scanned.active_notes : scanned.active_notes[k]})
                + scanned.tmp_active_notes
    IN  choose_multiple(scanned.beat_notes, notes_to_remove(total_active_notes, st.max_keys))

\* lines 51-88 with the notes `chosen` removed; after the last block, line 90
block_step(st, chosen) ==
    LET st1 == remove_chosen(scanned_block(st), chosen)
        last == st1.note_idx > Len(st1.notes)
    IN  [st EXCEPT
            !.pc = IF last THEN "done" ELSE "run",
            !.notes = st1.notes,
            !.note_idx = st1.note_idx,
            !.active_notes = st1.active_notes,
            !.out = IF last THEN RetainKept(st1.notes) ELSE @]

\* lines 51-88: one beat block
limit_beat_block ==
    /\ sim.pc = "run"
    /\ \E chosen \in block_choices(sim) : sim' = block_step(sim, chosen)
    /\ UNCHANGED others_sim

SimNext == SimGenNote \/ limit_simultaneous_start \/ limit_beat_block

SpecSim == SimInit /\ [][SimNext]_vars

\* the holds of `notes` in progress at `beat`: head at or before it, tail
\* strictly after it
HoldsInProgress(notes, beat) ==
    {i \in DOMAIN notes :
        /\ is_head(notes[i])
        /\ notes[i].beat <= beat
        /\ TailOf(notes, i) # 0 => notes[TailOf(notes, i)].beat > beat}

HitsOn(notes, beat) ==
    {i \in DOMAIN notes : ~is_head(notes[i]) /\ ~is_tail(notes[i]) /\ notes[i].beat = beat}

\* C10: after Simultaneous with max_keys = m >= 0, at every beat of the
\* output chart the holds in progress plus the hits on that beat are at
\* most m.
C10_AtMostMaxKeysAtOnce ==
    sim.pc = "done" =>
        \A i \in DOMAIN sim.out :
            Cardinality(HoldsInProgress(sim.out, sim.out[i].beat))
                + Cardinality(HitsOn(sim.out, sim.out[i].beat)) <= sim.max_keys

\* a chart that had too many keys at once: notes were removed, and the
\* output has a beat with a hold carried over from an earlier beat that
\* fills the limit together with the notes of that beat
C10_Witness ==
    /\ sim.pc = "done"
    /\ Len(sim.out) < Len(sim.input)
    /\ \E i \in DOMAIN sim.out :
          LET beat == sim.out[i].beat
          IN  /\ \E h \in HoldsInProgress(sim.out, beat) : sim.out[h].beat < beat
              /\ \E j \in DOMAIN sim.out : ~is_tail(sim.out[j]) /\ sim.out[j].beat = beat
              /\ Cardinality(HoldsInProgress(sim.out, beat))
                    + Cardinality(HitsOn(sim.out, beat)) = sim.max_keys

-----------------------------------------------------------------------------
(* Space and Snap (transform/space.rs, transform/snap.rs)                  *)

others_sp == <<rk, cv, pl, al, sim, sel, fn>>

MaxSpaceNotes == 4
MaxSpaceKeys == 2
TempoSteady == 500
TempoOff == 496
MinBpmSlow == 240
MinBpmFast == 480
MinBeatsHalf == 24

\* 60 seconds and the 0.010 s allowance, in ms
MS_PER_MIN == 60000
SPACE_EPS_MS == 10

\* MinDist::Bpm(bpm), MinDist::Beats(beats)
Bpm(bpm) == [kind |-> "Bpm", bpm |-> bpm, beats |-> 0]
Beats(beats) == [kind |-> "Beats", bpm |-> 0, beats |-> beats]

MinDists == {Bpm(MinBpmSlow), Bpm(MinBpmFast), Beats(MinBeatsHalf)}
SnapBpms == {MinBpmSlow, MinBpmFast}

\* sm.bpms: a steady tempo, a tempo slightly off it, a tempo change
\* half-way through the first beat
TempoLists ==
    {<<ControlPoint(0, TempoSteady, 1)>>,
     <<ControlPoint(0, TempoOff, 1)>>,
     <<ControlPoint(0, TempoSteady, 1),
       ControlPoint(FIXED_POINT \div 2, 2 * TempoSteady, 1)>>}

\* ToTime::beat_to_time: the time (1/48 ms) of `beat`, summed over the
\* control points at or before it
note_time(bpms, beat) ==
    LET S == {i \in DOMAIN bpms : bpms[i].beat <= beat}
        cur == IF S = {} THEN 1 ELSE CHOOSE i \in S : \A j \in S : j <= i
        F[i \in 1..cur] ==
            IF i = cur
            THEN ((beat - bpms[i].beat) * bpms[i].num) \div bpms[i].den
            ELSE ((bpms[i + 1].beat - bpms[i].beat) * bpms[i].num) \div bpms[i].den
                    + F[i + 1]
    IN  F[1]

\* lines 55-61: the cached note times
cache_note_times(notes, bpms) == [i \in DOMAIN notes |-> note_time(bpms, notes[i].beat)]

\* a limit of half the period, 30/bpm - 0.010
are_far_enough_half_period(min_dist, notes, note_times, a, b) ==
    IF min_dist.kind = "Bpm"
    THEN (note_times[b] - note_times[a]) * min_dist.bpm
            >= (MS_PER_MIN \div 2 - SPACE_EPS_MS * min_dist.bpm) * MsUnits
    ELSE notes[b].beat - notes[a].beat >= min_dist.beats

\* lines 67-90 (snap.rs 40, 76, 95): note_times[b] - note_times[a] >=
\* 60/bpm - 0.010, or the distance in beats
are_far_enough(min_dist, notes, note_times, a, b) ==
    IF min_dist.kind = "Bpm"
    THEN (note_times[b] - note_times[a]) * min_dist.bpm
            >= (MS_PER_MIN - SPACE_EPS_MS * min_dist.bpm) * MsUnits
    ELSE notes[b].beat - notes[a].beat >= min_dist.beats

\* lines 105-108: the first later note that is not a tail, not removed, and
\* on a later beat (0 if none)
next_neighbor(notes, note_idx) ==
    LET S == {j \in DOMAIN notes : /\ j > note_idx
                                   /\ ~is_tail(notes[j])
                                   /\ notes[j].key >= 0
                                   /\ notes[j].beat > notes[note_idx].beat}
    IN  IF S = {} THEN 0 ELSE CHOOSE j \in S : \A l \in S : j <= l

\* lines 115-119: the last earlier such note on an earlier beat (0 if none)
prev_neighbor(notes, note_idx) ==
    LET S == {j \in DOMAIN notes : /\ j < note_idx
                                   /\ ~is_tail(notes[j])
                                   /\ notes[j].key >= 0
                                   /\ notes[j].beat < notes[note_idx].beat}
    IN  IF S = {} THEN 0 ELSE CHOOSE j \in S : \A l \in S : l <= j

\* lines 102-123
keep_note(min_dist, notes, note_times, note_idx) ==
    LET next_note == next_neighbor(notes, note_idx)
        prev_note == prev_neighbor(notes, note_idx)
        forward == next_note = 0
                    \/ are_far_enough(min_dist, notes, note_times, note_idx, next_note)
    IN  /\ forward
        /\ prev_note = 0
            \/ are_far_enough(min_dist, notes, note_times, prev_note, note_idx)

\* a removal that forgets the tail of a removed head
mark_removed_head_only(notes, note_idx) ==
    [notes EXCEPT ![note_idx].key = -1]

\* lines 126-139: mark the note, and the tail of a head, for removal
mark_removed(notes, note_idx) ==
    LET j == TailOf(notes, note_idx)
        marked == IF is_head(notes[note_idx]) /\ j # 0
                  THEN [notes EXCEPT ![j].key = -1] ELSE notes
    IN  [marked EXCEPT ![note_idx].key = -1]

\* lines 92-98: note_refs, the non-tail notes; the sort puts the larger
\* denominators first and breaks ties at random
note_refs(notes) == {i \in DOMAIN notes : ~is_tail(notes[i])}

next_note_refs(notes, visited) ==
    {i \in note_refs(notes) \ visited :
        \A j \in note_refs(notes) \ visited :
            denominator(notes[j].beat) <= denominator(notes[i].beat)}

\* space.rs lines 145-184: the sanity check on the chart left behind
sanity_check(min_dist, notes, bpms) ==
    LET not_tail(note) == ~is_tail(note)
        notes_without_tails == SelectSeq(notes, not_tail)
    IN  \A idx \in 2..Len(notes_without_tails) :
            LET note == notes_without_tails[idx]
                prev == notes_without_tails[idx - 1]
                dist == Abs(note_time(bpms, note.beat) - note_time(bpms, prev.beat))
            IN  \/ note.beat = prev.beat
                \/ IF min_dist.kind = "Bpm"
                   THEN dist * min_dist.bpm >= MS_PER_MIN * MsUnits
                   ELSE note.beat - prev.beat >= min_dist.beats

SpIdle == [pc |-> "idle"]

SpInit ==
    /\ sp = [pc |-> "gen", variant |-> NONE, min_dist |-> Beats(0), bpms |-> <<>>,
             input |-> <<>>, notes |-> <<>>, note_times |-> <<>>, visited |-> {},
             out |-> <<>>, failed |-> FALSE]
    /\ rk = RkIdle /\ cv = [pc |-> "idle"] /\ pl = [pc |-> "idle"]
    /\ al = [pc |-> "idle"] /\ sim = [pc |-> "idle"]
    /\ sel = [pc |-> "idle"] /\ fn = [pc |-> "idle"]

\* the input chart: any well-formed chart
SpGenNote ==
    /\ sp.pc = "gen"
    /\ Len(sp.notes) < MaxSpaceNotes
    /\ \E kind \in Kinds, beat \in GridBeats, key \in 0..(MaxSpaceKeys - 1) :
          /\ CanAppend(sp.notes, Note(kind, beat, key))
          /\ sp' = [sp EXCEPT !.notes = Append(@, Note(kind, beat, key))]
    /\ UNCHANGED others_sp

\* the state when the loop over note_refs is over: the retain, and in
\* space.rs the sanity check
space_finish(st) ==
    IF note_refs(st.notes) \subseteq st.visited
    THEN [st EXCEPT
            !.pc = "done",
            !.out = RetainKept(st.notes),
            !.failed = /\ st.variant = "space"
                       /\ ~sanity_check(st.min_dist, RetainKept(st.notes), st.bpms)]
    ELSE st

space_begin(st, variant, min_dist, bpms) ==
    space_finish([st EXCEPT
        !.pc = "run", !.variant = variant, !.min_dist = min_dist, !.bpms = bpms,
        !.input = st.notes,
        !.note_times = cache_note_times(st.notes, bpms)])

\* one turn of the loop over note_refs
space_visit(st, note_idx) ==
    space_finish([st EXCEPT
        !.visited = @ \cup {note_idx},
        !.notes = IF keep_note(st.min_dist, st.notes, st.note_times, note_idx)
                  THEN @ ELSE mark_removed(@, note_idx)])

\* space.rs lines 51-98
make_space_start ==
    /\ sp.pc = "gen"
    /\ Complete(sp.notes, MaxSpaceKeys)
    /\ \E min_dist \in MinDists, bpms \in TempoLists :
          sp' = space_begin(sp, "space", min_dist, bpms)
    /\ UNCHANGED others_sp

\* space.rs lines 100-140; after the last note, lines 142-186
make_space_note ==
    /\ sp.pc = "run" /\ sp.variant = "space"
    /\ \E note_idx \in next_note_refs(sp.notes, sp.visited) :
          sp' = space_visit(sp, note_idx)
    /\ UNCHANGED others_sp

\* snap.rs lines 38-62
snap_start ==
    /\ sp.pc = "gen"
    /\ Complete(sp.notes, MaxSpaceKeys)
    /\ \E bpm \in SnapBpms, bpms \in TempoLists :
          sp' = space_begin(sp, "snap", Bpm(bpm), bpms)
    /\ UNCHANGED others_sp

\* snap.rs lines 64-121; after the last note, line 123
snap_note ==
    /\ sp.pc = "run" /\ sp.variant = "snap"
    /\ \E note_idx \in next_note_refs(sp.notes, sp.visited) :
          sp' = space_visit(sp, note_idx)
    /\ UNCHANGED others_sp

SpNext == SpGenNote \/ make_space_start \/ make_space_note \/ snap_start \/ snap_note

SpecSpace == SpInit /\ [][SpNext]_vars

\* the retained notes that are not tails, in chart order
RetainedNonTails ==
    LET not_tail(note) == ~is_tail(note)
    IN  SelectSeq(sp.out, not_tail)

\* the time between two beats is at least 60/bpm - 0.010 s
AtLeastMinPeriodApart(bpms, bpm, earlier, later) ==
    (note_time(bpms, later) - note_time(bpms, earlier)) * bpm
        >= (MS_PER_MIN - SPACE_EPS_MS * bpm) * MsUnits

\* C8: after Space (or Snap) with MinBpm = b, two retained non-tail notes
\* adjacent in beat order share their beat or are at least 60/b - 0.010 s
\* apart.
C8_RetainedNotesSpaced ==
    sp.pc = "done" /\ sp.min_dist.kind = "Bpm" =>
        \A i \in 2..Len(RetainedNonTails) :
            \/ RetainedNonTails[i].beat = RetainedNonTails[i - 1].beat
            \/ AtLeastMinPeriodApart(sp.bpms, sp.min_dist.bpm,
                                     RetainedNonTails[i - 1].beat, RetainedNonTails[i].beat)

\* a chart with notes too close: some were removed, and notes on different
\* beats were retained, two of them on either side of a removed one
C8_Witness ==
    /\ sp.pc = "done" /\ sp.min_dist.kind = "Bpm"
    /\ \E i \in 2..Len(RetainedNonTails) :
          /\ RetainedNonTails[i].beat > RetainedNonTails[i - 1].beat
          /\ \E j \in DOMAIN sp.input :
                /\ ~is_tail(sp.input[j])
                /\ sp.input[j].beat > RetainedNonTails[i - 1].beat
                /\ sp.input[j].beat < RetainedNonTails[i].beat

\* C29: Space never fails on a well-formed chart: the sanity check at the
\* end of make_space accepts the chart its removal pass leaves, for every
\* MinDist (Bpm or Beats) and every note layout.
C29_SpaceSanityCheckAccepts ==
    sp.pc = "done" /\ sp.variant = "space" => ~sp.failed

-----------------------------------------------------------------------------
(* The note-removing stages together: Simultaneous and Space/Snap          *)

RemoversInit == SimInit \/ SpInit

RemoversNext == SimNext \/ SpNext

SpecRemovers == RemoversInit /\ [][RemoversNext]_vars

\* in the notes as marked for removal (key -1), every tail of the input is
\* marked exactly when the head it closes is marked
HoldsWhole(input, marked) ==
    \A j \in DOMAIN input :
        is_tail(input[j]) =>
            (marked[j].key < 0 <=> marked[HeadOf(input, j)].key < 0)

\* a hold of the input removed as a whole and another kept as a whole
RemovedAndKeptHold(input, marked) ==
    /\ \E j \in DOMAIN input : is_tail(input[j]) /\ marked[j].key < 0
    /\ \E j \in DOMAIN input : is_tail(input[j]) /\ marked[j].key >= 0

\* C11: Simultaneous and Space never leave a hold half-removed: a tail is
\* absent from the output exactly when its own head is absent, and the
\* output chart is well-formed.
C11_NoHalfRemovedHold ==
    /\ sim.pc = "done" => HoldsWhole(sim.input, sim.notes) /\ WellFormed(sim.out)
    /\ sp.pc = "done" => HoldsWhole(sp.input, sp.notes) /\ WellFormed(sp.out)

C11_Witness ==
    \/ sim.pc = "done" /\ sim.input # <<>> /\ RemovedAndKeptHold(sim.input, sim.notes)
    \/ sp.pc = "done" /\ RemovedAndKeptHold(sp.input, sp.notes)

-----------------------------------------------------------------------------
(* Select (node/select.rs); transform/simfilefix.rs spread_difficulties    *)
(* ends with the same label-conflict loop                                  *)

others_sel == <<rk, cv, pl, sp, al, sim, fn>>

MaxCharts == 3
MaxDiffNum == 2
MaxSelect == 3
DedupDist == 2

\* f64::INFINITY, for gaps that do not exist
INFINITY == 1000000
\* the "saturated" cost of a direction
MAX_COST == 9999

\* simfile::Difficulty (some of its values)
Difficulties == {"Beginner", "Easy", "Medium"}

\* a chart of the list: its label, its numeric difficulty, and which chart
\* of the input it is
Chart(id, difficulty, difficulty_num) ==
    [id |-> id, difficulty |-> difficulty, difficulty_num |-> difficulty_num]

\* PreferDiff; ClosestMatch with min = max, so that `to` is used as it is
Spread == [kind |-> "Spread", to |-> <<>>]
Easier == [kind |-> "Easier", to |-> <<>>]
Harder == [kind |-> "Harder", to |-> <<>>]
ClosestMatch(to) == [kind |-> "ClosestMatch", to |-> to]

\* Select: max, prefer, dedup_dist, dedup_bias (a fraction), diff_names
SelectConfs ==
    [max : 0..MaxSelect,
     prefer : {Spread, Easier, Harder, ClosestMatch(<<0, MaxDiffNum>>)},
     dedup : {[dist |-> 0, bias_num |-> 1, bias_den |-> 2],
              [dist |-> DedupDist, bias_num |-> 0, bias_den |-> 1],
              [dist |-> DedupDist, bias_num |-> 1, bias_den |-> 1]},
     diff_names : {<<>>, <<"Beginner", "Easy">>, <<"Beginner", "Easy", "Medium">>}]

Min2(a, b) == IF a <= b THEN a ELSE b

\* sort_by_key(SortableFloat(d)): a stable sort by .d
RECURSIVE sort_by_diff(_)
sort_by_diff(seq) ==
    IF seq = <<>> THEN <<>>
    ELSE LET rest == sort_by_diff(SubSeq(seq, 1, Len(seq) - 1))
             x == seq[Len(seq)]
             n == Cardinality({i \in DOMAIN rest : rest[i].d <= x.d})
         IN  SubSeq(rest, 1, n) \o <<x>> \o SubSeq(rest, n + 1, Len(rest))

\* lines 212-220: (index, difficulty) of every chart, sorted by difficulty
sorted_order(simfiles) ==
    sort_by_diff([i \in DOMAIN simfiles |-> [idx |-> i, d |-> simfiles[i].difficulty_num]])

\* lines 232-251: the charts kept by the deduplication, from index `idx` on
RECURSIVE dedup_from(_, _, _)
dedup_from(order, idx, dedup) ==
    IF idx > Len(order) THEN <<>>
    ELSE LET bucket_min_diff == order[idx].d
             in_bucket == {i \in idx..Len(order) :
                             \A j \in (idx + 1)..i : order[j].d - bucket_min_diff < dedup.dist}
             bucket_end == CHOOSE i \in in_bucket : \A j \in in_bucket : j <= i
             bucket_max_diff == order[bucket_end].d
             \* diff >= min + (max - min) * dedup_bias
             reaches_mid(i) ==
                 order[i].d * dedup.bias_den
                     >= bucket_min_diff * dedup.bias_den
                         + (bucket_max_diff - bucket_min_diff) * dedup.bias_num
             mids == {i \in idx..bucket_end : reaches_mid(i)}
             mid_idx == CHOOSE i \in mids : \A j \in mids : i <= j
         IN  <<order[mid_idx]>> \o dedup_from(order, bucket_end + 1, dedup)

\* lines 92-110: the key of a difficulty, its smallest gap to the dataset;
\* `diff` and the dataset are scaled by the same factor
smallest_gap(diff, dataset) ==
    LET S == {p \in DOMAIN dataset : dataset[p] >= diff}
        next_datapoint == IF S = {} THEN Len(dataset) + 1
                          ELSE CHOOSE p \in S : \A q \in S : p <= q
        prev_gap == IF next_datapoint > 1 THEN diff - dataset[next_datapoint - 1]
                    ELSE INFINITY
        next_gap == IF next_datapoint <= Len(dataset) THEN dataset[next_datapoint] - diff
                    ELSE INFINITY
    IN  Min2(prev_gap, next_gap)

\* lines 88-115: remove the difficulty with the largest smallest gap (the
\* last of them, as max_by_key does) until truncate_to are left
RECURSIVE match_dataset(_, _, _, _)
match_dataset(diffs, dataset, scale, truncate_to) ==
    IF Len(diffs) <= truncate_to THEN diffs
    ELSE LET key(i) == smallest_gap(diffs[i].d * scale, dataset)
             best == {i \in DOMAIN diffs : \A j \in DOMAIN diffs : key(j) <= key(i)}
             to_remove == CHOOSE i \in best : \A j \in best : j <= i
         IN  match_dataset(SubSeq(diffs, 1, to_remove - 1)
                               \o SubSeq(diffs, to_remove + 1, Len(diffs)),
                           dataset, scale, truncate_to)

\* PreferDiff::evict
evict(prefer, diffs, truncate_to) ==
    IF diffs = <<>> THEN diffs
    ELSE LET min == diffs[1].d
             range == diffs[Len(diffs)].d - min
         IN  CASE prefer.kind = "Spread" ->
                    IF truncate_to = 1
                    THEN match_dataset(diffs, <<2 * min + range>>, 2, truncate_to)
                    ELSE match_dataset(diffs,
                            [k \in 1..truncate_to |-> min * (truncate_to - 1) + range * (k - 1)],
                            truncate_to - 1, truncate_to)
               [] prefer.kind = "ClosestMatch" ->
                    match_dataset(diffs, prefer.to, 1, truncate_to)
               [] prefer.kind = "Easier" ->
                    SubSeq(diffs, 1, Min2(truncate_to, Len(diffs)))
               [] prefer.kind = "Harder" ->
                    IF truncate_to < Len(diffs)
                    THEN SubSeq(diffs, Len(diffs) - truncate_to + 1, Len(diffs))
                    ELSE diffs

\* lines 260-267: the kept charts with their difficulties, sorted
reorder(simfiles, order) ==
    LET kept == {order[k].idx : k \in DOMAIN order}
        is_kept(chart) == chart.id \in kept
    IN  LET seq == SelectSeq(simfiles, is_kept)
            keyed == sort_by_diff([i \in DOMAIN seq |-> [idx |-> i, d |-> seq[i].difficulty_num]])
        IN  [i \in DOMAIN keyed |-> seq[keyed[i].idx]]

\* lines 277-285: the index of a chart's label in diff_names, the last
\* index for a label that is not there (indices count from 0)
diff_index(diff_names, difficulty) ==
    LET S == {p \in DOMAIN diff_names : diff_names[p] = difficulty}
    IN  IF S = {} THEN Len(diff_names) - 1
        ELSE (CHOOSE p \in S : \A q \in S : p <= q) - 1

\* lines 295-318: direction_cost, for the chart at position idx (from 1)
RECURSIVE direction_walk(_, _, _, _, _, _)
direction_walk(difficulties, names, idx, dir, occupied_if, cost) ==
    IF /\ occupied_if >= 0 /\ occupied_if < names
       /\ idx >= 1 /\ idx <= Len(difficulties)
       /\ (difficulties[idx] - occupied_if) * dir <= 0
    THEN direction_walk(difficulties, names, idx + dir, dir, occupied_if + dir, cost + 1)
    ELSE IF occupied_if < 0 \/ occupied_if >= names THEN MAX_COST ELSE cost

\* a cost that does not tell a walk that left the label range from one
\* that found room
direction_cost_unsaturated(difficulties, names, idx, dir) ==
    LET cost == direction_walk(difficulties, names, idx, dir, difficulties[idx], 0)
    IN  IF cost = MAX_COST THEN 1 ELSE cost

direction_cost(difficulties, names, idx, dir) ==
    direction_walk(difficulties, names, idx, dir, difficulties[idx], 0)

\* lines 291-329: the first conflict, as (idx, dir); idx = 0 if none
find_conflict(difficulties, names) ==
    LET S == {i \in 1..(Len(difficulties) - 1) : difficulties[i + 1] = difficulties[i]}
    IN  IF S = {} THEN [idx |-> 0, dir |-> 0]
        ELSE LET i == CHOOSE i \in S : \A j \in S : i <= j
             IN  IF direction_cost(difficulties, names, i, -1)
                        < direction_cost(difficulties, names, i + 1, 1)
                 THEN [idx |-> i, dir |-> -1]
                 ELSE [idx |-> i + 1, dir |-> 1]

\* lines 335-350: push the labels along `dir`, clamped to the label range
RECURSIVE solve_conflict(_, _, _, _, _)
solve_conflict(difficulties, names, idx, dir, set_to) ==
    IF /\ idx >= 1 /\ idx <= Len(difficulties)
       /\ (difficulties[idx] - set_to) * dir <= 0
    THEN LET clamped == Max2(Min2(set_to, names - 1), 0)
         IN  solve_conflict([difficulties EXCEPT ![idx] = clamped],
                            names, idx + dir, dir, clamped + dir)
    ELSE difficulties

SelIdle == [pc |-> "idle"]

SelInit ==
    /\ sel = [pc |-> "gen", conf |-> NONE, input |-> <<>>, simfiles |-> <<>>,
              difficulties |-> <<>>]
    /\ rk = RkIdle /\ cv = [pc |-> "idle"] /\ pl = [pc |-> "idle"]
    /\ sp = [pc |-> "idle"] /\ al = [pc |-> "idle"] /\ sim = [pc |-> "idle"]
    /\ fn = [pc |-> "idle"]

\* the input list: any charts, any labels, any finite difficulties
SelGenChart ==
    /\ sel.pc = "gen"
    /\ Len(sel.input) < MaxCharts
    /\ \E difficulty \in Difficulties, difficulty_num \in 0..MaxDiffNum :
          sel' = [sel EXCEPT !.input =
                    Append(@, Chart(Len(@) + 1, difficulty, difficulty_num))]
    /\ UNCHANGED others_sel

\* lines 198-286
trim_difficulties_start ==
    /\ sel.pc = "gen"
    /\ \E conf \in SelectConfs :
          IF conf.diff_names = <<>> \/ conf.max <= 0
          THEN sel' = [sel EXCEPT !.pc = "done", !.conf = conf]
          ELSE LET order == evict(conf.prefer,
                                  dedup_from(sorted_order(sel.input), 1, conf.dedup),
                                  Min2(conf.max, Len(conf.diff_names)))
                   simfiles == reorder(sel.input, order)
               IN  sel' = [sel EXCEPT
                       !.pc = "resolve", !.conf = conf, !.simfiles = simfiles,
                       !.difficulties =
                           [i \in DOMAIN simfiles |->
                               diff_index(conf.diff_names, simfiles[i].difficulty)]]
    /\ UNCHANGED others_sel

\* lines 289-354: one turn of the conflict loop; when there is no conflict
\* left, lines 361-364
resolve_conflicts_turn ==
    /\ sel.pc = "resolve"
    /\ LET names == Len(sel.conf.diff_names)
           conflict == find_conflict(sel.difficulties, names)
       IN  IF conflict.idx # 0
           THEN sel' = [sel EXCEPT
                   !.difficulties =
                       solve_conflict(@, names, conflict.idx, conflict.dir,
                                      @[conflict.idx] + conflict.dir)]
           ELSE sel' = [sel EXCEPT
                   !.pc = "done",
                   !.simfiles = [i \in DOMAIN @ |->
                       [@[i] EXCEPT !.difficulty =
                           sel.conf.diff_names[sel.difficulties[i] + 1]]]]
    /\ UNCHANGED others_sel

SelNext == SelGenChart \/ trim_difficulties_start \/ resolve_conflicts_turn

SpecSelect == SelInit /\ [][SelNext]_vars

\* the labels of diff_names are pairwise different
DistinctNames(diff_names) ==
    \A p, q \in DOMAIN diff_names : p # q => diff_names[p] # diff_names[q]

\* C12: after Select succeeds with pairwise different diff_names, no two
\* charts of the output list carry the same Difficulty label.
C12_OutputLabelsDistinct ==
    sel.pc = "done" /\ DistinctNames(sel.conf.diff_names) =>
        \A i, j \in DOMAIN sel.simfiles :
            i # j => sel.simfiles[i].difficulty # sel.simfiles[j].difficulty

-----------------------------------------------------------------------------
(* Resolution of stages that are already resolved                          *)

\* resolved stages given back as a configuration: every port a
\* BucketId::Resolved
as_config(out) ==
    [i \in DOMAIN out |->
        [tag |-> out[i].tag,
         ports |-> [j \in DOMAIN out[i].ports |->
                       Port(out[i].ports[j].kind,
                            ResolvedId(out[i].ports[j].name, out[i].ports[j].take))]]]

\* the outputs of the successful resolutions of the transform pipelines
ResolvedConfigs ==
    {as_config(resolve_buckets(c, "~in", "~out").out) :
        c \in {d \in TransformConfigs : resolve_buckets(d, "~in", "~out").err = ""}}

ReInit ==
    /\ pl \in {[PlIdle EXCEPT !.pc = "config", !.variant = v, !.nodes = c] :
                  v \in {"transform", "node"}, c \in ResolvedConfigs}
    /\ rk = RkIdle /\ cv = [pc |-> "idle"] /\ sp = [pc |-> "idle"]
    /\ al = [pc |-> "idle"] /\ sim = [pc |-> "idle"]
    /\ sel = [pc |-> "idle"] /\ fn = [pc |-> "idle"]

SpecReResolve == ReInit /\ [][ResolveBuckets]_vars

\* C13: resolution of stages whose ports are already Resolved succeeds and
\* yields the same stages with the same bucket names and take flags.
C13_ResolutionIdempotent ==
    pl.pc # "config" =>
        /\ pl.err = ""
        /\ as_config(pl.resolved) = pl.nodes

\* ---------------------------------------------------------------------
\* KeyAlloc (node/rekey.rs): weighted choice of an out-key
\* ---------------------------------------------------------------------

others_fn == <<rk, cv, pl, sp, al, sim, sel>>

KaMaxKeys == 2
KaMaxTime == 2
KaMaxX == 2
KaMaxY == 2

\* f64::NEG_INFINITY, the last_active of a key never touched
NEG_INFINITY == 0 - INFINITY

\* a (time, weight) point of Rekey::weight_curve
CurvePoint(x, y) == [x |-> x, y |-> y]

\* weight curves, times strictly increasing, of zero to two points
WeightCurves ==
    {<<>>}
    \cup {<<CurvePoint(x, y)>> : x \in 0..KaMaxX, y \in 0..KaMaxY}
    \cup {c \in [1..2 -> [x : 0..KaMaxX, y : 0..KaMaxY]] : c[1].x < c[2].x}

\* the candidate slices: the keys of 0..key_count-1 in any order, none twice
KeySlices(key_count) ==
    {s \in UNION {[1..n -> 0..(key_count - 1)] : n \in 0..key_count} :
        \A i \in 1..Len(s) : \A j \in 1..Len(s) : i # j => s[i] # s[j]}

\* KeyAlloc::new
KeyAlloc_new(key_count) ==
    [weight_points |-> <<>>, default_weight |-> 1,
     last_active |-> [k \in 1..key_count |-> NEG_INFINITY]]

\* KeyAlloc::set_weight_curve: a segment (up_to, m, c) keeps the slope m and
\* the offset c as fractions over den = next_x - this_x
set_weight_curve(ka, weight_curve) ==
    [ka EXCEPT
        !.weight_points =
            [i \in 1..(IF Len(weight_curve) = 0 THEN 0 ELSE Len(weight_curve) - 1) |->
                LET this == weight_curve[i]
                    next == weight_curve[i + 1]
                IN  [up_to |-> next.x,
                     m_num |-> next.y - this.y,
                     c_num |-> (0 - this.x) * (next.y - this.y)
                               + this.y * (next.x - this.x),
                     den |-> next.x - this.x]],
        !.default_weight =
            IF Len(weight_curve) = 0 THEN 1 ELSE weight_curve[Len(weight_curve)].y]

RECURSIVE weight_from(_, _, _)
weight_from(ka, time, i) ==
    IF i > Len(ka.weight_points) THEN [num |-> ka.default_weight, den |-> 1]
    ELSE LET p == ka.weight_points[i]
         IN  IF time <= p.up_to
             THEN [num |-> p.m_num * time + p.c_num, den |-> p.den]
             ELSE weight_from(ka, time, i + 1)

\* KeyAlloc::inactive_time_to_weight, the weight as a fraction num/den, den > 0
inactive_time_to_weight(ka, time) == weight_from(ka, time, 1)

\* KeyAlloc::touch
touch(ka, key, time) == [ka EXCEPT !.last_active[key + 1] = time]

\* time - self.last_active[out_key]
Elapsed(ka, out_key, time) == time - ka.last_active[out_key + 1]

\* the weight alloc's closure gives a candidate
alloc_weight(ka, out_key, time) ==
    inactive_time_to_weight(ka, Elapsed(ka, out_key, time))

\* SliceRandom::choose_weighted: the indices it can return, {} for Err (no
\* item, a negative weight, or all weights zero)
choose_weighted(keys, weights) ==
    IF Len(keys) = 0 THEN {}
    ELSE IF \E i \in 1..Len(keys) : weights[i].num < 0 THEN {}
    ELSE {i \in 1..Len(keys) : weights[i].num > 0}

\* KeyAlloc::alloc: the (key, allocator) outcomes, key -1 for None
alloc(ka, keys, time) ==
    LET weights == [i \in 1..Len(keys) |-> alloc_weight(ka, keys[i], time)]
        chosen == choose_weighted(keys, weights)
    IN  IF chosen = {} THEN {[key |-> -1, ka |-> ka]}
        ELSE {[key |-> keys[i], ka |-> touch(ka, keys[i], time)] : i \in chosen}

KaInit ==
    /\ fn \in {[pc |-> "new", ka |-> set_weight_curve(KeyAlloc_new(kc), wc),
                keys |-> <<>>, time |-> 0, result |-> -1] :
                  kc \in 1..KaMaxKeys, wc \in WeightCurves}
    /\ rk = RkIdle /\ cv = [pc |-> "idle"] /\ pl = [pc |-> "idle"]
    /\ sp = [pc |-> "idle"] /\ al = [pc |-> "idle"] /\ sim = [pc |-> "idle"]
    /\ sel = [pc |-> "idle"]

\* one call of alloc on an allocator in any state earlier calls left it in
alloc_call ==
    /\ fn.pc \in {"new", "allocated"}
    /\ \E keys \in KeySlices(Len(fn.ka.last_active)), time \in 0..KaMaxTime :
         \E r \in alloc(fn.ka, keys, time) :
            fn' = [fn EXCEPT !.pc = "allocated", !.ka = r.ka, !.keys = keys,
                             !.time = time, !.result = r.key]
    /\ UNCHANGED others_fn

SpecKeyAlloc == KaInit /\ [][alloc_call]_vars

\* C14: alloc returns None exactly when the candidate slice is empty, and
\* for a non-empty slice it returns one of the candidates, whatever the
\* weight curve and the last_active times.
C14_AllocNoneIffEmpty ==
    fn.pc = "allocated" =>
        /\ (fn.result = -1) <=> (fn.keys = <<>>)
        /\ fn.keys # <<>> => \E i \in 1..Len(fn.keys) : fn.keys[i] = fn.result

\* ---------------------------------------------------------------------
\* ConvCtx::new on any parsed beatmap (node/osuload.rs 383-409)
\* ---------------------------------------------------------------------

\* the timing-point lists Beatmap::parse can hand over: any sorted list,
\* the empty one and the all-inherited ones included
ParsedBeatmaps == {tps \in TpLists(MaxTps) : SortedTps(tps)}

NewInit ==
    /\ cv \in {[pc |-> "parsed", timing_points |-> tps, first_hit_time |-> first] :
                  tps \in ParsedBeatmaps, first \in CvTimes \cup {-1}}
    /\ rk = RkIdle /\ pl = [pc |-> "idle"] /\ sp = [pc |-> "idle"]
    /\ al = [pc |-> "idle"] /\ sim = [pc |-> "idle"]
    /\ sel = [pc |-> "idle"] /\ fn = [pc |-> "idle"]

\* ConvCtx::new. Line 391 evaluates bm.timing_points[0] before unwrap_or is
\* called, hit objects or not: an empty list panics there. Lines 403-408
\* return the error when no timing point has beat_len > 0.
ConvCtx_new ==
    /\ cv.pc = "parsed"
    /\ IF Len(cv.timing_points) = 0
       THEN cv' = [cv EXCEPT !.pc = "panicked"]
       ELSE IF first_tp_idx(cv.timing_points, cv.first_hit_time) = 0
       THEN cv' = [cv EXCEPT !.pc = "no non-inherited timing points found"]
       ELSE \E up \in BOOLEAN :
               cv' = CvStart(cv.timing_points, cv.first_hit_time, up)
    /\ UNCHANGED others_cv

SpecConvNew == NewInit /\ [][ConvCtx_new]_vars

\* C15: for every beatmap without a timing point of beat_len > 0, the empty
\* timing-point list included, ConvCtx::new returns the "no absolute timing
\* point" error: it neither panics nor builds a context.
C15_NoAbsoluteTimingPointIsAnError ==
    (cv.pc # "parsed" /\ \A i \in DOMAIN cv.timing_points : cv.timing_points[i].beat_len <= 0)
        => cv.pc = "no non-inherited timing points found"

\* ---------------------------------------------------------------------
\* Auto inputs with nothing to bind to (resolve_layer)
\* ---------------------------------------------------------------------

\* the ports of a stage that take the last auto output
MagneticInputs(node) ==
    {j \in DOMAIN node.ports :
        node.ports[j].kind = "Input" /\ node.ports[j].id.k \in {"Auto", "Nest"}}

\* does the stage leave an auto output behind for the next one?
LeavesMagneticOut(node) ==
    \E j \in DOMAIN node.ports :
        node.ports[j].kind = "Output" /\ node.ports[j].id.k \in {"Auto", "Nest"}

\* a stage of the top layer with an Auto or Nest input while nothing is
\* offered: the first stage of a pipeline without an input bucket (node.rs),
\* or a stage whose predecessor has no Auto or Nest output
Starved(nodes, variant) ==
    \E i \in DOMAIN nodes :
        /\ MagneticInputs(nodes[i]) # {}
        /\ IF i = 1 THEN variant = "node" ELSE ~LeavesMagneticOut(nodes[i - 1])

\* C16: resolution fails with an error whenever a stage has an Auto or Nest
\* input port and no unconsumed auto output is there for it to bind to.
C16_StarvedAutoInputFails ==
    (pl.pc \notin {"idle", "config"} /\ Starved(pl.nodes, pl.variant))
        => (pl.pc = "rejected" /\ pl.err # "")

C16_Witness ==
    /\ pl.pc = "rejected"
    /\ pl.err = "previous does not output"
    /\ Starved(pl.nodes, pl.variant)
    /\ \E i \in 2..Len(pl.nodes) : MagneticInputs(pl.nodes[i]) # {}

\* ---------------------------------------------------------------------
\* Reserved names: user names against generated names
\* ---------------------------------------------------------------------

MaxNameStages == 2
MaxNameNested == 1

\* the ids a user can write, names with the reserved prefix included
NameIds == {Auto, Name("a"), Name("~1"), Name("~in")}

NameInnerIds == {Auto, Name("~1")}

NameLists(n) ==
    {[i \in 1..n |-> IoNode(i, f[i][1], f[i][2])] : f \in [1..n -> NameIds \X NameIds]}

NameInnerLists ==
    UNION {{[j \in 1..n |-> IoNode(10 + j, f[j][1], f[j][2])] :
               f \in [1..n -> NameInnerIds \X NameInnerIds]} : n \in 0..MaxNameNested}

NameConfigs ==
    UNION {NameLists(n) : n \in 0..MaxNameStages}
    \cup UNION {{WithNest(l, i, p, inner) :
                    l \in NameLists(n), i \in 1..n, p \in 1..2, inner \in NameInnerLists} :
                n \in 1..MaxNameStages}

NamesInit ==
    /\ pl \in {[PlIdle EXCEPT !.pc = "config", !.variant = v, !.nodes = c] :
                  v \in {"transform", "node"}, c \in NameConfigs}
    /\ rk = RkIdle /\ cv = [pc |-> "idle"] /\ sp = [pc |-> "idle"]
    /\ al = [pc |-> "idle"] /\ sim = [pc |-> "idle"]
    /\ sel = [pc |-> "idle"] /\ fn = [pc |-> "idle"]

SpecNames == NamesInit /\ [][ResolveBuckets]_vars

\* the names the user wrote, at every depth of the configuration
RECURSIVE UserNames(_)
UserNames(nodes) ==
    UNION {UNION {LET id == nodes[i].ports[j].id
                  IN  IF id.k = "Name" THEN {id.name}
                      ELSE IF id.k = "Nest" THEN UserNames(id.list)
                      ELSE {} : j \in DOMAIN nodes[i].ports} : i \in DOMAIN nodes}

\* the names gen_unique_name returned while next_id went from 0 to next_id
GeneratedNames(next_id) == {gen_unique_name(k) : k \in 0..(next_id - 1)}

\* C17: a user's name never coincides with a generated one: resolution fails
\* for any Name starting with '~'; every generated name starts with '~',
\* differs from every other generated name and from the pipeline's own
\* input and output names; so no accepted user name is a generated name.
C17_UserNamesNeverGenerated ==
    pl.pc \notin {"idle", "config"} =>
        /\ (\E n \in UserNames(pl.nodes) : starts_with_tilde(n)) => pl.pc = "rejected"
        /\ \A k \in 0..(pl.next_id - 1) :
              /\ starts_with_tilde(gen_unique_name(k))
              /\ gen_unique_name(k) \notin {"~in", "~out"}
              /\ \A h \in 0..(pl.next_id - 1) :
                    h # k => gen_unique_name(h) # gen_unique_name(k)
        /\ pl.pc # "rejected" => GeneratedNames(pl.next_id) \cap UserNames(pl.nodes) = {}

C17_Witness ==
    /\ pl.pc = "rejected"
    /\ pl.err = "reserved name"
    /\ pl.next_id >= 2
    /\ "~1" \in UserNames(pl.nodes)

\* ---------------------------------------------------------------------
\* Seeded randomness: two runs of a randomised stage on the same simfile
\* ---------------------------------------------------------------------

MaxRunNotes == 3
MaxRunKeys == 2
MaxRunLimit == 1

\* FastRng::seed_from_u64: a generator at the start of the stream of `seed`
seed_from_u64(seed) == [seed |-> seed, n |-> 0]

\* a generator seeded by the operating system: no two are alike
from_entropy(sm, name) == [seed |-> <<"entropy">>, n |-> 0]

\* simfile_rng: the hash of (music, title_trans, desc, name) is the seed;
\* the tuple stands for its hash
simfile_rng(sm, name) == seed_from_u64(<<sm.music, sm.title_trans, sm.desc, name>>)

\* The stream of a seed is fixed but unknown: `tape` keeps what the
\* generator of tape.seed gave so far, draw by draw, as the candidates it
\* was asked to choose among and the one it chose. A generator of the same
\* seed at an earlier position gives the same again.
Replays(rng, tape, choices) ==
    /\ rng.seed = tape.seed
    /\ rng.seed # <<"entropy">>
    /\ rng.n < Len(tape.draws)
    /\ tape.draws[rng.n + 1].choices = choices

Drawn(rng, tape, choices) ==
    IF Replays(rng, tape, choices) THEN {tape.draws[rng.n + 1].chosen} ELSE choices

Recorded(rng, tape, choices, chosen) ==
    IF rng.seed = tape.seed /\ rng.n = Len(tape.draws)
    THEN [tape EXCEPT !.draws = Append(@, [choices |-> choices, chosen |-> chosen])]
    ELSE tape

\* the name each stage gives simfile_rng
Stages == {"rekey", "simultaneous", "space"}

StageConfs(stage) ==
    IF stage = "rekey"
    THEN {[out_keycount |-> ok, avoid_shuffle |-> av] :
             ok \in 1..MaxRunKeys, av \in BOOLEAN}
    ELSE IF stage = "simultaneous"
    THEN {[max_keys |-> m] : m \in 0..MaxRunLimit}
    ELSE {[min_dist |-> d, bpms |-> b] : d \in MinDists, b \in TempoLists}

\* the stage's state once its set-up is done
StageBegin(stage, sm, conf) ==
    IF stage = "rekey"
    THEN rekey_begin([RkIdle EXCEPT !.pc = "gen", !.in_keycount = sm.key_count,
                                    !.out_keycount = conf.out_keycount,
                                    !.avoid_shuffle = conf.avoid_shuffle,
                                    !.notes = sm.notes])
    ELSE IF stage = "simultaneous"
    THEN limit_simultaneous_begin(
             [pc |-> "gen", key_count |-> sm.key_count, max_keys |-> conf.max_keys,
              notes |-> sm.notes, input |-> <<>>, note_idx |-> 0,
              active_notes |-> <<>>, out |-> <<>>])
    ELSE space_begin(
             [pc |-> "gen", variant |-> NONE, min_dist |-> Beats(0), bpms |-> <<>>,
              input |-> <<>>, notes |-> sm.notes, note_times |-> <<>>, visited |-> {},
              out |-> <<>>, failed |-> FALSE],
             "space", conf.min_dist, conf.bpms)

\* what the stage's next random choice can be; {} when its next step makes none
StageChoices(stage, st) ==
    IF stage = "rekey" THEN rekey_choices(st)
    ELSE IF stage = "simultaneous" THEN block_choices(st)
    ELSE next_note_refs(st.notes, st.visited)

StageStep(stage, st, chosen) ==
    IF stage = "rekey" THEN rekey_step(st, chosen)
    ELSE IF stage = "simultaneous" THEN block_step(st, chosen)
    ELSE space_visit(st, chosen)

RunsInit ==
    /\ fn \in {[pc |-> "gen", stage |-> s,
                sm |-> [music |-> "audio.mp3", title_trans |-> "title", desc |-> "desc",
                        key_count |-> kc, notes |-> <<>>],
                conf |-> NONE, rng |-> NONE, tape |-> NONE, st |-> NONE,
                first_out |-> <<>>, second_out |-> <<>>] :
                  s \in Stages, kc \in 1..MaxRunKeys}
    /\ rk = RkIdle /\ cv = [pc |-> "idle"] /\ pl = [pc |-> "idle"]
    /\ sp = [pc |-> "idle"] /\ al = [pc |-> "idle"] /\ sim = [pc |-> "idle"]
    /\ sel = [pc |-> "idle"]

\* the simfile given to the stage: any well-formed chart
RunGenNote ==
    /\ fn.pc = "gen"
    /\ Len(fn.sm.notes) < MaxRunNotes
    /\ \E kind \in Kinds, beat \in GridBeats, key \in 0..(fn.sm.key_count - 1) :
          /\ CanAppend(fn.sm.notes, Note(kind, beat, key))
          /\ fn' = [fn EXCEPT !.sm.notes = Append(@, Note(kind, beat, key))]
    /\ UNCHANGED others_fn

\* the first run starts: the stage makes its generator
first_run ==
    /\ fn.pc = "gen"
    /\ Complete(fn.sm.notes, fn.sm.key_count)
    /\ \E conf \in StageConfs(fn.stage) :
          LET rng == simfile_rng(fn.sm, fn.stage)
          IN  fn' = [fn EXCEPT !.pc = "first", !.conf = conf, !.rng = rng,
                               !.tape = [seed |-> rng.seed, draws |-> <<>>],
                               !.st = StageBegin(fn.stage, fn.sm, conf)]
    /\ UNCHANGED others_fn

\* one step of the running stage, with the random choice it makes, if any
run_step ==
    /\ fn.pc \in {"first", "second"}
    /\ fn.st.pc = "run"
    /\ LET choices == StageChoices(fn.stage, fn.st)
       IN  IF choices = {}
           THEN fn' = [fn EXCEPT !.st = StageStep(fn.stage, fn.st, -1)]
           ELSE \E chosen \in Drawn(fn.rng, fn.tape, choices) :
                   fn' = [fn EXCEPT
                            !.st = StageStep(fn.stage, fn.st, chosen),
                            !.tape = Recorded(fn.rng, fn.tape, choices, chosen),
                            !.rng.n = @ + 1]
    /\ UNCHANGED others_fn

\* the same stage, configured alike, is run again on an equal simfile
second_run ==
    /\ fn.pc = "first"
    /\ fn.st.pc = "done"
    /\ fn' = [fn EXCEPT !.pc = "second", !.first_out = fn.st.out,
                        !.rng = simfile_rng(fn.sm, fn.stage),
                        !.st = StageBegin(fn.stage, fn.sm, fn.conf)]
    /\ UNCHANGED others_fn

\* the second run is over
runs_compared ==
    /\ fn.pc = "second"
    /\ fn.st.pc = "done"
    /\ fn' = [fn EXCEPT !.pc = "compared", !.second_out = fn.st.out]
    /\ UNCHANGED others_fn

RunsNext == RunGenNote \/ first_run \/ run_step \/ second_run \/ runs_compared

SpecTwoRuns == RunsInit /\ [][RunsNext]_vars

MaxHoldObjs == 2
MaxHoldStep == 2

\* osu! playfield width: obj.x * key_count / 512
PLAYFIELD_WIDTH == 512
HoldKeyCount == 4
HoldStepMs == 500
HoldBeatLens == {250, 500}

\* hit times and end times: every three beats of the first timing point
HoldTimes == {k * 3 * HoldStepMs * MsUnits : k \in 0..MaxHoldStep}

\* an x in the first column, one in the last, and one off the field
HoldXs == {0, 384, 512}

\* an absolute timing point at 0 and a second one later
HoldTps ==
    {<<TimingPoint(0, HoldStepMs), TimingPoint(t2, b2)>> :
        b2 \in HoldBeatLens, t2 \in {1000 * MsUnits, 2000 * MsUnits}}

HitObject(time, x, long, end_time) ==
    [time |-> time, x |-> x, long |-> long, end_time |-> end_time]

\* line 730: (obj.x * key_count / 512.).floor()
obj_key(x, key_count) == FloorDiv(x * key_count, PLAYFIELD_WIDTH)

HoldInit ==
    /\ \E tps \in HoldTps, first \in HoldTimes, up \in BOOLEAN :
          cv = [key_count |-> HoldKeyCount, hit_objects |-> <<>>]
                  @@ CvStart(tps, first, up)
    /\ rk = RkIdle /\ pl = [pc |-> "idle"] /\ sp = [pc |-> "idle"]
    /\ al = [pc |-> "idle"] /\ sim = [pc |-> "idle"]
    /\ sel = [pc |-> "idle"] /\ fn = [pc |-> "idle"]

\* lines 715-766: one hit object given by its x; lines 731-736 end the
\* conversion with an error when x is off the field
process_mania_x ==
    /\ cv.pc = "objects"
    /\ cv.n_objs < MaxHoldObjs
    /\ \E time \in HoldTimes, x \in HoldXs, long \in BOOLEAN, end_time \in HoldTimes :
          /\ IF cv.n_objs = 0 THEN time = cv.first_hit_time ELSE time >= cv.last_obj_time
          /\ IF long THEN end_time >= time ELSE end_time = time
          /\ LET key == obj_key(x, cv.key_count)
                 obj == HitObject(time, x, long, end_time)
             IN  IF key >= 0 /\ key < cv.key_count
                 THEN cv' = [mania_object(cv, time, key, long, end_time)
                                EXCEPT !.hit_objects = Append(@, obj)]
                 ELSE cv' = [flush_tails([cv EXCEPT !.calls = <<>>], cv.timing_points,
                                         due_tails(cv.pending_tails, time))
                                EXCEPT !.hit_objects = Append(@, obj),
                                       !.pc = "invalid object x"]
    /\ UNCHANGED others_cv

HoldNext == process_mania_x \/ process_mania_finish

SpecHold == HoldInit /\ [][HoldNext]_vars

\* the beatmap of the example: timing points {0, 500} and {2000, 250}, one
\* hold from 1500 ms to 3000 ms at x = 384, converted to the end
HoldExample ==
    /\ cv.pc = "done"
    /\ cv.key_count = 4
    /\ cv.timing_points = <<TimingPoint(0, 500), TimingPoint(2000 * MsUnits, 250)>>
    /\ cv.hit_objects = <<HitObject(1500 * MsUnits, 384, TRUE, 3000 * MsUnits)>>

HoldExampleBpms ==
    cv.conv.out_bpms = <<ControlPoint(0, 500, 1), ControlPoint(4 * FIXED_POINT, 250, 1)>>

\* C19: the example beatmap yields a head at beat 3 on key 3, exactly two
\* control points (beat 0 at 0.5 s per beat, beat 4 at 0.25 s per beat) and
\* a tail at beat 6 on key 3.
C19_HoldAcrossTempoChange ==
    HoldExample =>
        /\ cv.conv.out_notes = <<Note(KIND_HEAD, 3 * FIXED_POINT, 3),
                                 Note(KIND_TAIL, 6 * FIXED_POINT, 3)>>
        /\ HoldExampleBpms

\* C19, as the code has it: the same head and control points, and the tail
\* at beat 8 on key 3 (beat 4 at 2000 ms, then 1000 ms at 250 ms per beat).
C19_HoldTailAtBeat8 ==
    HoldExample =>
        /\ cv.conv.out_notes = <<Note(KIND_HEAD, 3 * FIXED_POINT, 3),
                                 Note(KIND_TAIL, 8 * FIXED_POINT, 3)>>
        /\ HoldExampleBpms

C19_Witness ==
    /\ HoldExample
    /\ Len(cv.conv.out_notes) = 2
    /\ Len(cv.conv.out_bpms) = 2

\* ---------------------------------------------------------------------
\* Chords of hits in rekey
\* ---------------------------------------------------------------------

MaxChordNotes == 4
MaxChordBeat == 1
ChordInKeys == 4
ChordOutKeysFew == 2
ChordOutKeysMany == 5

ChordInit ==
    /\ rk \in {[RkIdle EXCEPT !.pc = "gen", !.in_keycount = ChordInKeys,
                              !.out_keycount = ok, !.avoid_shuffle = FALSE] :
                  ok \in {ChordOutKeysFew, ChordOutKeysMany}}
    /\ cv = [pc |-> "idle"] /\ pl = [pc |-> "idle"] /\ sp = [pc |-> "idle"]
    /\ al = [pc |-> "idle"] /\ sim = [pc |-> "idle"]
    /\ sel = [pc |-> "idle"] /\ fn = [pc |-> "idle"]

\* the input chart: hits only, each beat's hits on ascending keys
ChordGenNote ==
    /\ rk.pc = "gen"
    /\ Len(rk.notes) < MaxChordNotes
    /\ \E beat \in {b * FIXED_POINT : b \in 0..MaxChordBeat}, key \in 0..(rk.in_keycount - 1) :
          /\ CanAppend(rk.notes, Note(KIND_HIT, beat, key))
          /\ rk.notes # <<>> /\ rk.notes[Len(rk.notes)].beat = beat
                => key > rk.notes[Len(rk.notes)].key
          /\ rk' = [rk EXCEPT !.notes = Append(@, Note(KIND_HIT, beat, key))]
    /\ UNCHANGED others_rk

ChordNext == ChordGenNote \/ rekey_start \/ rekey_note

SpecChord == ChordInit /\ [][ChordNext]_vars

\* the notes the loop of rekey has been through
Processed == IF rk.pc \in {"run", "done"} THEN DOMAIN rk.mapped ELSE {}

\* every note of `beat` has been through the loop
BeatOver(beat) ==
    \/ rk.pc = "done"
    \/ rk.pc = "run" /\ rk.notes[rk.i].beat > beat

\* a note of a later beat than `beat` has been through the loop
LaterNoteSeen(beat) == \E j \in Processed : rk.notes[j].beat > beat

\* the chord of the example: hits at beat 0 on keys 0..3, remapped to 5 keys
ChordExample ==
    /\ rk.pc = "done"
    /\ rk.out_keycount = 5
    /\ rk.notes = <<Note(KIND_HIT, 0, 0), Note(KIND_HIT, 0, 1),
                    Note(KIND_HIT, 0, 2), Note(KIND_HIT, 0, 3)>>

-----------------------------------------------------------------------------
(* Select: what Spread keeps, and the distance the deduplication leaves    *)

\* the numeric difficulties of a list of charts
DiffNums(charts) == {charts[i].difficulty_num : i \in DOMAIN charts}

\* line 256: conf.max.min(conf.diff_names.len())
truncate_to(conf) == Min2(conf.max, Len(conf.diff_names))

\* C21: with prefer = Spread and a truncation target of at least 2, Select
\* keeps the lowest and the highest numeric difficulty of its input list,
\* repeated values included.
C21_SpreadKeepsExtremes ==
    /\ sel.pc = "done"
    /\ sel.conf.prefer = Spread
    /\ sel.conf.dedup.dist = 0
    /\ truncate_to(sel.conf) >= 2
    /\ sel.input # <<>>
    => \A d \in DiffNums(sel.input) :
          (\A e \in DiffNums(sel.input) : d <= e) \/ (\A e \in DiffNums(sel.input) : e <= d)
              => d \in DiffNums(sel.simfiles)

\* C22: after Select with dedup_dist = d > 0, any two charts of the output
\* list have numeric difficulties at least d apart.
C22_KeptChartsAtLeastDedupDistApart ==
    sel.pc = "done" /\ sel.conf.dedup.dist > 0 =>
        \A i, j \in DOMAIN sel.simfiles :
            i # j => Abs(sel.simfiles[i].difficulty_num - sel.simfiles[j].difficulty_num)
                        >= sel.conf.dedup.dist

-----------------------------------------------------------------------------
(* write_measure (simfile.rs)                                              *)

MaxMeasureNotes == 2
MaxMeasureIdx == 1

BEATS_IN_MEASURE == 4
MeasureKeyCount == 4

\* offsets from the measure start, in ticks; the first lies before the
\* measure and the last behind it
MeasureOffsets == {0 - FIXED_POINT, 0, 1, 6, 16, 24, 36, 48, 72, 96, 191, 192}

\* lines 350-354: how often `factor` divides both num and den
RECURSIVE simplify_exp(_, _, _)
simplify_exp(num, den, factor) ==
    IF num % factor = 0 /\ den % factor = 0
    THEN 1 + simplify_exp(num \div factor, den \div factor, factor)
    ELSE 0

\* what is left of a number after dividing it by factor^exp
RECURSIVE simplified(_, _, _)
simplified(num, factor, exp) ==
    IF exp = 0 THEN num ELSE simplified(num \div factor, factor, exp - 1)

\* a get_denom that simplifies by the factor 2 only
get_denom_by_two(num) == <<simplify_exp(num, FIXED_POINT, 2), 0>>

\* lines 346-357: get_denom, the exponents of 2 and of 3
get_denom(num) ==
    LET by2 == simplify_exp(num, FIXED_POINT, 2)
        by3 == simplify_exp(simplified(num, 2, by2), simplified(FIXED_POINT, 2, by2), 3)
    IN  <<by2, by3>>

RECURSIVE pow(_, _)
pow(base, exp) == IF exp = 0 THEN 1 ELSE base * pow(base, exp - 1)

\* u32::min over the notes, from u32::MAX (here: the exponents of 48)
RECURSIVE min_exp(_, _, _)
min_exp(notes, measure_start, which) ==
    IF notes = <<>> THEN 32
    ELSE Min2(get_denom(notes[1].beat - measure_start)[which],
              min_exp(Tail(notes), measure_start, which))

\* lines 358-376
simplify_by_of(notes, measure_start) ==
    IF notes = <<>> THEN FIXED_POINT
    ELSE pow(2, min_exp(notes, measure_start, 1)) * pow(3, min_exp(notes, measure_start, 2))

\* lines 380-402: the notes written into out_measure, one after the other;
\* the first failing ensure ends the loop
RECURSIVE place_notes(_, _, _, _, _, _)
place_notes(out, notes, i, measure_start, simplify_by, key_count) ==
    IF i > Len(notes) THEN out
    ELSE LET note == notes[i]
             rel_pos == note.beat - measure_start
             idx == rel_pos \div simplify_by
             rows == BEATS_IN_MEASURE * (FIXED_POINT \div simplify_by)
         IN  IF rel_pos % simplify_by # 0
             THEN [out EXCEPT !.err = "incorrect simplify_by"]
             ELSE IF ~(idx < rows)
             THEN [out EXCEPT !.err = "more than one measure in buffer"]
             ELSE IF ~(note.key >= 0 /\ note.key < key_count)
             THEN [out EXCEPT !.err = "note key outside range"]
             ELSE place_notes(
                      [out EXCEPT !.out_measure[idx * key_count + note.key + 1] = note.kind,
                                  !.placed = Append(@, idx)],
                      notes, i + 1, measure_start, simplify_by, key_count)

\* write_measure: the error, or the rows written to the file
write_measure(key_count, measure_start, notes) ==
    IF \E i \in DOMAIN notes : notes[i].beat - measure_start < 0
    THEN [err |-> "note starts before the measure start", rows |-> 0,
          out_measure |-> <<>>, placed |-> <<>>]
    ELSE LET simplify_by == simplify_by_of(notes, measure_start)
             rows_per_beat == FIXED_POINT \div simplify_by
             rows == BEATS_IN_MEASURE * rows_per_beat
             out == place_notes([err |-> "", rows |-> rows,
                                 out_measure |-> [c \in 1..(rows * key_count) |-> "0"],
                                 placed |-> <<>>],
                                notes, 1, measure_start, simplify_by, key_count)
         IN  IF out.err # "" THEN [out EXCEPT !.rows = 0] ELSE out

MeasureInit ==
    /\ fn \in {[pc |-> "measure", key_count |-> MeasureKeyCount,
                measure_start |-> m * BEATS_IN_MEASURE * FIXED_POINT,
                notes |-> <<>>, written |-> NONE] : m \in 0..MaxMeasureIdx}
    /\ rk = RkIdle /\ cv = [pc |-> "idle"] /\ pl = [pc |-> "idle"]
    /\ sp = [pc |-> "idle"] /\ al = [pc |-> "idle"] /\ sim = [pc |-> "idle"]
    /\ sel = [pc |-> "idle"]

\* the notes handed to write_measure: sorted by beat, keys of the gamemode
MeasureGenNote ==
    /\ fn.pc = "measure"
    /\ Len(fn.notes) < MaxMeasureNotes
    /\ \E off \in MeasureOffsets, key \in {0, fn.key_count - 1},
          kind \in {KIND_HIT, KIND_HEAD} :
          /\ fn.notes # <<>> => fn.notes[Len(fn.notes)].beat <= fn.measure_start + off
          /\ fn' = [fn EXCEPT !.notes = Append(@, Note(kind, fn.measure_start + off, key))]
    /\ UNCHANGED others_fn

write_measure_call ==
    /\ fn.pc = "measure"
    /\ fn' = [fn EXCEPT !.pc = "written",
                        !.written = write_measure(fn.key_count, fn.measure_start, fn.notes)]
    /\ UNCHANGED others_fn

MeasureNext == MeasureGenNote \/ write_measure_call

SpecMeasure == MeasureInit /\ [][MeasureNext]_vars

\* the offset of a note from the measure start
Offset(note) == note.beat - fn.measure_start

\* every note lies inside the measure
InsideMeasure ==
    \A i \in DOMAIN fn.notes :
        Offset(fn.notes[i]) >= 0 /\ Offset(fn.notes[i]) < BEATS_IN_MEASURE * FIXED_POINT

\* the largest divisor of 48 that divides every offset
LargestCommonDivisor ==
    LET divs == {s \in 1..FIXED_POINT :
                    /\ FIXED_POINT % s = 0
                    /\ \A i \in DOMAIN fn.notes : Offset(fn.notes[i]) % s = 0}
    IN  CHOOSE s \in divs : \A t \in divs : t <= s

\* C23: for a measure whose notes lie inside it, write_measure fails no
\* check, emits 4 * (48 / s) rows for s the largest divisor of 48 dividing
\* every offset, and places each note on row offset / s, below the row count.
C23_MeasureRows ==
    fn.pc = "written" /\ InsideMeasure =>
        LET s == LargestCommonDivisor
        IN  /\ fn.written.err = ""
            /\ fn.written.rows = BEATS_IN_MEASURE * (FIXED_POINT \div s)
            /\ Len(fn.written.out_measure) = fn.written.rows * fn.key_count
            /\ Len(fn.written.placed) = Len(fn.notes)
            /\ \A i \in DOMAIN fn.notes :
                  /\ fn.written.placed[i] * s = Offset(fn.notes[i])
                  /\ fn.written.placed[i] < fn.written.rows

C23_Witness ==
    /\ fn.pc = "written"
    /\ InsideMeasure
    /\ Len(fn.notes) = 2
    /\ fn.measure_start > 0
    /\ LargestCommonDivisor = 12
    /\ fn.written.rows = 16
    /\ fn.written.placed = <<3, 8>>

-----------------------------------------------------------------------------
(* The order of nested stages in the resolved list                         *)

MaxOrderDepth == 2
MaxOrderNested == 2

\* the stages of a Nest carry tags made from the tag of the stage that owns
\* the port: 10 * owner + j on an input port, 10 * owner + 4 + j on an
\* output port
RECURSIVE OrderLists(_, _, _, _)
OrderLists(depth, owner, off, n) ==
    IF n = 0 THEN {<<>>}
    ELSE LET tag == 10 * owner + off + n
             nests(o) == IF depth < MaxOrderDepth
                         THEN {Nest(l) : l \in UNION {OrderLists(depth + 1, tag, o, m) :
                                                         m \in 0..1}}
                         ELSE {}
         IN  {Append(l, IoNode(tag, from, into)) :
                 l \in OrderLists(depth, owner, off, n - 1),
                 from \in {Auto} \cup nests(0),
                 into \in {Auto} \cup nests(4)}

\* a stage with nests on its ports, the stages before it and a stage after it
OrderConfigs(first) ==
    {first \o <<IoNode(2, from, into), IoNode(3, Auto, Auto)>> :
        from \in {Auto} \cup {Nest(l) : l \in UNION {OrderLists(1, 2, 0, m) :
                                                      m \in 0..MaxOrderNested}},
        into \in {Auto} \cup {Nest(l) : l \in UNION {OrderLists(1, 2, 4, m) :
                                                      m \in 0..MaxOrderNested}}}

OrderInit ==
    /\ pl \in {[PlIdle EXCEPT !.pc = "config", !.variant = "transform", !.nodes = c] :
                  c \in OrderConfigs(<<>>) \cup OrderConfigs(<<IoNode(1, Auto, Auto)>>)}
              \cup {[PlIdle EXCEPT !.pc = "config", !.variant = "node", !.nodes = c] :
                       c \in OrderConfigs(<<SrcNode(1, Auto, Null)>>)}
    /\ rk = RkIdle /\ cv = [pc |-> "idle"] /\ sp = [pc |-> "idle"]
    /\ al = [pc |-> "idle"] /\ sim = [pc |-> "idle"]
    /\ sel = [pc |-> "idle"] /\ fn = [pc |-> "idle"]

SpecOrder == OrderInit /\ [][ResolveBuckets]_vars

\* the tags of the stages of a list, nested ones included
RECURSIVE TagsOf(_)
TagsOf(list) ==
    UNION {{list[i].tag} \cup UNION {TagsOf(list[i].ports[p].id.list) :
                                        p \in DOMAIN list[i].ports} : i \in DOMAIN list}

\* <<owner, kind, nested>>: stage `nested` belongs to a Nest on a port of
\* that kind of stage `owner`, at any depth below it
RECURSIVE NestLinks(_)
NestLinks(list) ==
    UNION {UNION {{<<list[i].tag, list[i].ports[p].kind, t>> :
                      t \in TagsOf(list[i].ports[p].id.list)}
                  \cup NestLinks(list[i].ports[p].id.list) :
                     p \in DOMAIN list[i].ports} : i \in DOMAIN list}

\* the place of a stage in the resolved list
PosOf(tag) == CHOOSE i \in DOMAIN pl.resolved : pl.resolved[i].tag = tag

\* the places of the stages with a port of that kind bound to `name`
PortsOn(kind, name) ==
    {i \in DOMAIN pl.resolved :
        \E p \in DOMAIN pl.resolved[i].ports :
            pl.resolved[i].ports[p].kind = kind /\ pl.resolved[i].ports[p].name = name}

\* the bucket names made by resolution
LinkNames ==
    {pl.resolved[i].ports[p].name : i \in DOMAIN pl.resolved, p \in {1, 2}}
        \cap {GenNames[k] : k \in DOMAIN GenNames}

\* C24: in the resolved order the stages of a Nest on an input port come
\* before the stage that owns the port and those of a Nest on an output
\* port after it, at every depth; every stage comes after the stages that
\* write the bucket it reads.
C24_NestedStagesOrdered ==
    pl.pc \in {"ready", "resolved"} =>
        /\ \A l \in NestLinks(pl.nodes) :
              IF l[2] = "Input" THEN PosOf(l[3]) < PosOf(l[1])
              ELSE PosOf(l[1]) < PosOf(l[3])
        /\ \A name \in LinkNames :
              \A w \in PortsOn("Output", name), r \in PortsOn("Input", name) : w < r

C24_Witness ==
    /\ pl.pc \in {"ready", "resolved"}
    /\ Len(pl.resolved) >= 6
    /\ \E l \in NestLinks(pl.nodes) : l[2] = "Input" /\ l[3] > 100
    /\ \E l \in NestLinks(pl.nodes) : l[2] = "Output" /\ l[3] > 100
    /\ \E l \in NestLinks(pl.nodes) : l[1] > 10 /\ l[2] = "Output"

-----------------------------------------------------------------------------
(* Chains of stages with Auto ports                                        *)

MaxChain == 3

ChainIds == {Auto, Name("a")}

\* chains of stages 1, 2, ...: an input and an output each
ChainLists ==
    UNION {{[i \in 1..n |-> IoNode(i, f[i][1], f[i][2])] :
               f \in [1..n -> ChainIds \X ChainIds]} : n \in 1..MaxChain}

\* the chain alone, in both variants, and behind an OsuLoad (stage 0)
ChainInit ==
    /\ pl \in {[PlIdle EXCEPT !.pc = "config", !.variant = v, !.nodes = c] :
                  v \in {"transform", "node"}, c \in ChainLists}
              \cup {[PlIdle EXCEPT !.pc = "config", !.variant = "node",
                                   !.nodes = <<SrcNode(0, Auto, Null)>> \o c] :
                       c \in ChainLists}
    /\ rk = RkIdle /\ cv = [pc |-> "idle"] /\ sp = [pc |-> "idle"]
    /\ al = [pc |-> "idle"] /\ sim = [pc |-> "idle"]
    /\ sel = [pc |-> "idle"] /\ fn = [pc |-> "idle"]

SpecChain == ChainInit /\ [][ResolveBuckets]_vars

\* the stages of the chain, in the configuration and in the resolved list
ChainOf(list) == SelectSeq(list, LAMBDA node : node.tag > 0)

\* every stage of the chain has an Auto input and an Auto output
AutoChain ==
    \A i \in DOMAIN ChainOf(pl.nodes) :
        \A p \in {1, 2} : ChainOf(pl.nodes)[i].ports[p].id = Auto

\* how many ports of the resolved list are bound to `name`
PortsBoundTo(name) ==
    Cardinality({<<i, p>> \in (DOMAIN pl.resolved) \X {1, 2} :
                    pl.resolved[i].ports[p].name = name})

IsGenName(name) == name \in {GenNames[k] : k \in DOMAIN GenNames}

\* stage i reads what stage i - 1 writes, under a generated name that no
\* other port carries
ChainLinked(chain) ==
    \A i \in 2..Len(chain) :
        /\ chain[i].ports[1].name = chain[i - 1].ports[2].name
        /\ IsGenName(chain[i].ports[1].name)
        /\ PortsBoundTo(chain[i].ports[1].name) = 2

\* C25: for a top-level chain of stages with Auto ports, resolution binds
\* each input to the output before it under a fresh name of its own, and the
\* last output to the output name of the parent; in transform.rs the first
\* input is "~in" and the last output "~out".
C25_AutoChainLinks ==
    pl.pc # "config" /\ AutoChain =>
        LET chain == ChainOf(pl.resolved)
        IN  /\ pl.err = ""
            /\ Len(chain) = Len(ChainOf(pl.nodes))
            /\ ChainLinked(chain)
            /\ chain[Len(chain)].ports[2].name
                  = (IF pl.variant = "transform" THEN "~out" ELSE NONE)
            /\ pl.variant = "transform" => chain[1].ports[1].name = "~in"

\* C25, as the code has it: in transform.rs as stated; in node.rs the top
\* layer has neither an input nor an output name, so a chain that starts the
\* pipeline is rejected, and behind an OsuLoad the chain is linked in the
\* same way, its first input bound to the output of the OsuLoad and its last
\* output to a generated name that no other port carries.
C25_AutoChainLinksByVariant ==
    pl.pc # "config" /\ AutoChain =>
        LET chain == ChainOf(pl.resolved)
            n == Len(chain)
        IN  CASE pl.variant = "transform" ->
                   /\ pl.err = ""
                   /\ n = Len(pl.nodes)
                   /\ ChainLinked(chain)
                   /\ chain[n].ports[2].name = "~out"
                   /\ chain[1].ports[1].name = "~in"
              [] pl.variant = "node" /\ pl.nodes[1].tag > 0 ->
                   pl.err = "previous does not output"
              [] OTHER ->
                   /\ pl.err = ""
                   /\ n = Len(pl.nodes) - 1
                   /\ ChainLinked(chain)
                   /\ chain[1].ports[1].name = pl.resolved[1].ports[1].name
                   /\ IsGenName(chain[1].ports[1].name)
                   /\ PortsBoundTo(chain[1].ports[1].name) = 2
                   /\ IsGenName(chain[n].ports[2].name)
                   /\ PortsBoundTo(chain[n].ports[2].name) = 1

C25_Witness ==
    /\ pl.pc = "ready"
    /\ AutoChain
    /\ Len(pl.resolved) = 3
    /\ pl.resolved[2].ports[1].name = "~1"
    /\ pl.resolved[3].ports[1].name = "~2"

-----------------------------------------------------------------------------
(* The pivot of a tempo correction (ConvCtx::get_beat)                     *)

MaxPivotAdv == 50
MaxPivotNote == 20

\* the beat of the timing point left behind, in ticks
PivotCurBeats == {0, 16, FIXED_POINT}

\* the beat of the last note pushed, in ticks; -1 when there is none
PivotNoteBeats == {-1} \cup {3 * k : k \in 0..MaxPivotNote}

PivotInit ==
    /\ fn \in [pc : {"pivot"}, cur_beat : PivotCurBeats, ceil_adv : 0..MaxPivotAdv,
               last_note : PivotNoteBeats, pivot_max : {0}, last_beat : {0},
               pivot : {[found |-> FALSE, beat |-> 0]}]
    /\ rk = RkIdle /\ cv = [pc |-> "idle"] /\ pl = [pc |-> "idle"]
    /\ sp = [pc |-> "idle"] /\ al = [pc |-> "idle"] /\ sim = [pc |-> "idle"]
    /\ sel = [pc |-> "idle"]

\* lines 495-518: the search for the pivot of a correction
pivot_search ==
    /\ fn.pc = "pivot"
    /\ LET last_beat == Max2(IF fn.last_note = -1 THEN 0 ELSE fn.last_note, fn.cur_beat)
           pivot_max == fn.cur_beat + fn.ceil_adv
       IN  fn' = [fn EXCEPT !.pc = "searched", !.pivot_max = pivot_max,
                            !.last_beat = last_beat,
                            !.pivot = find_pivot(pivot_max, last_beat)]
    /\ UNCHANGED others_fn

SpecPivot == PivotInit /\ [][pivot_search]_vars

\* the six candidates that are not before last_beat
PivotCandidates ==
    {p \in {BeatCeil(fn.pivot_max, beat_gaps[g]) - beat_gaps[g] : g \in DOMAIN beat_gaps} :
        p >= fn.last_beat}

\* C26: the pivot is the largest of the six candidates that are at least
\* max(beat of the last note, cur_beat); there is no pivot only when no
\* candidate is.
C26_PivotIsLargestCandidate ==
    fn.pc = "searched" =>
        /\ fn.pivot.found <=> PivotCandidates # {}
        /\ fn.pivot.found =>
              /\ fn.pivot.beat \in PivotCandidates
              /\ \A p \in PivotCandidates : p <= fn.pivot.beat

\* C26, as the code has it: the pivot is the candidate of the first gap, in
\* the order 1, 1/2, 1/4, 1/8, 1/16, 1/48, that is at least that bound,
\* which is the smallest of the candidates that are.
C26_PivotIsFirstCandidate ==
    fn.pc = "searched" =>
        /\ fn.pivot.found <=> PivotCandidates # {}
        /\ fn.pivot.found =>
              /\ fn.pivot.beat \in PivotCandidates
              /\ \A p \in PivotCandidates : fn.pivot.beat <= p
              /\ \E g \in DOMAIN beat_gaps :
                    /\ fn.pivot.beat = BeatCeil(fn.pivot_max, beat_gaps[g]) - beat_gaps[g]
                    /\ \A h \in 1..(g - 1) :
                          BeatCeil(fn.pivot_max, beat_gaps[h]) - beat_gaps[h] < fn.last_beat

C26_Witness ==
    /\ fn.pc = "searched"
    /\ fn.pivot.found
    /\ Cardinality(PivotCandidates) >= 3
    /\ fn.pivot.beat > fn.last_beat
    /\ fn.last_note > fn.cur_beat

-----------------------------------------------------------------------------
(* The first timing point: ConvCtx::new (node/osuload.rs) and convert      *)
(* (conv.rs)                                                               *)

MaxSnapIdx == 3
MaxSnapMoves == 2
SnapGrain == 200

\* times of timing points and of the first hit object, 200 ms apart
SnapTimes == {SnapGrain * MsUnits * k : k \in 0..MaxSnapIdx}

\* one or two timing points, sorted by time
SnapBeatmaps ==
    {<<TimingPoint(t, b)>> : t \in SnapTimes, b \in CvBeatLens}
    \cup {tps \in {<<TimingPoint(t1, b1), TimingPoint(t2, b2)>> :
                       t1 \in SnapTimes, t2 \in SnapTimes,
                       b1 \in CvBeatLens, b2 \in CvBeatLens} : SortedTps(tps)}

SnapInit ==
    /\ cv \in {[pc |-> "parsed", timing_points |-> tps, first_hit_time |-> first] :
                  tps \in SnapBeatmaps, first \in SnapTimes \cup {-1}}
    /\ rk = RkIdle /\ pl = [pc |-> "idle"] /\ sp = [pc |-> "idle"]
    /\ al = [pc |-> "idle"] /\ sim = [pc |-> "idle"]
    /\ sel = [pc |-> "idle"] /\ fn = [pc |-> "idle"]

\* conv.rs lines 20-24 and 185: the first timing point of the file, whatever
\* its beat_len
convert_start ==
    /\ cv.pc = "parsed"
    /\ cv' = [pc |-> "moving", timing_points |-> cv.timing_points,
              first_hit_time |-> cv.first_hit_time,
              conv |-> [cur_tp |-> cv.timing_points[1]], moves |-> 0]
    /\ UNCHANGED others_cv

\* conv.rs lines 186-193: one turn of `while first_hit.time < first_tp.time`
convert_move_back ==
    /\ cv.pc = "moving"
    /\ cv.first_hit_time # -1
    /\ cv.first_hit_time < cv.conv.cur_tp.time
    /\ cv.moves < MaxSnapMoves
    /\ cv' = [cv EXCEPT !.conv.cur_tp.time =
                            @ - cv.conv.cur_tp.beat_len * BEATS_IN_MEASURE * MsUnits,
                        !.moves = @ + 1]
    /\ UNCHANGED others_cv

\* conv.rs line 194: the loop is left, or there is no hit object
convert_moved ==
    /\ cv.pc = "moving"
    /\ ~(cv.first_hit_time # -1 /\ cv.first_hit_time < cv.conv.cur_tp.time)
    /\ cv' = [cv EXCEPT !.pc = "converted"]
    /\ UNCHANGED others_cv

SnapNext == ConvCtx_new \/ convert_start \/ convert_move_back \/ convert_moved

SpecSnap == SnapInit /\ [][SnapNext]_vars

\* the timing point chosen at the start, as it stands in the file
ChosenTp ==
    IF cv.pc = "objects"
    THEN cv.timing_points[first_tp_idx(cv.timing_points, cv.first_hit_time)]
    ELSE cv.timing_points[1]

\* the time of the first hit object; ConvCtx::new takes the time of the
\* first timing point when there is none
FirstHitTime ==
    IF cv.first_hit_time = -1 THEN cv.timing_points[1].time ELSE cv.first_hit_time

\* C27: at initialisation the chosen timing point is only moved backwards:
\* its time is never later than in the file, differs from it by a whole
\* multiple of beat_len * meter, and in the end is at most first_hit_time.
C27_FirstTpOnlyMovedBack ==
    cv.pc \in {"objects", "moving", "converted"} =>
        /\ cv.conv.cur_tp.time <= ChosenTp.time
        /\ (ChosenTp.time - cv.conv.cur_tp.time)
              % (Abs(ChosenTp.beat_len) * Meter * MsUnits) = 0
        /\ (cv.pc = "objects" \/ (cv.pc = "converted" /\ cv.first_hit_time # -1))
              => cv.conv.cur_tp.time <= FirstHitTime

-----------------------------------------------------------------------------
(* A bucket on its own: put_list and take_lists                            *)

MaxPuts == 3
MaxListLen == 2

\* the lists a stage may put: up to MaxListLen simfiles, the empty list too
PutLists ==
    UNION {[1..n -> {<<1>>, <<2>>}] : n \in 0..MaxListLen}

BucketInit ==
    /\ fn = [pc |-> "bucket", bucket |-> EmptyBucket, puts |-> <<>>,
             handed |-> <<>>, taken |-> FALSE]
    /\ rk = RkIdle /\ cv = [pc |-> "idle"] /\ pl = [pc |-> "idle"]
    /\ sp = [pc |-> "idle"] /\ al = [pc |-> "idle"] /\ sim = [pc |-> "idle"]
    /\ sel = [pc |-> "idle"]

\* Bucket::put_list
put_list_call ==
    /\ fn.pc = "bucket"
    /\ Len(fn.puts) < MaxPuts
    /\ \E list \in PutLists :
          fn' = [fn EXCEPT !.bucket = put_list(@, list),
                           !.puts = Append(@, list),
                           !.handed = <<>>,
                           !.taken = FALSE]
    /\ UNCHANGED others_fn

\* Bucket::take_lists with a consumer that keeps what it is handed:
\* mem::replace empties simfiles, drain(..) empties lists
take_lists_call ==
    /\ fn.pc = "bucket"
    /\ ~fn.taken
    /\ fn' = [fn EXCEPT !.handed = take_lists(fn.bucket),
                        !.bucket = EmptyBucket,
                        !.puts = <<>>,
                        !.taken = TRUE]
    /\ UNCHANGED others_fn

BucketNext == put_list_call \/ take_lists_call

SpecBucket == BucketInit /\ [][BucketNext]_vars

\* C28: take_lists hands over exactly the lists that were put, empty ones
\* included, in the order they were put, and leaves the bucket empty.
C28_TakeListsInPutOrder ==
    [][take_lists_call =>
          /\ fn'.handed = fn.puts
          /\ fn'.bucket = EmptyBucket]_vars

\* C28, as the code has it: the same lists, handed over in the reverse of
\* the order they were put, the last one first; the bucket is left empty.
C28_TakeListsInReversePutOrder ==
    [][take_lists_call =>
          /\ Len(fn'.handed) = Len(fn.puts)
          /\ \A k \in DOMAIN fn.puts : fn'.handed[k] = fn.puts[Len(fn.puts) + 1 - k]
          /\ fn'.bucket = EmptyBucket]_vars

C28_Witness ==
    /\ fn.pc = "bucket"
    /\ fn.taken
    /\ fn.handed = <<<<<<2>>>>, <<>>, <<<<1>>, <<2>>>>>>
    /\ fn.bucket = EmptyBucket

-----------------------------------------------------------------------------
(* The conflict loop of trim_difficulties / spread_difficulties on its own *)

MaxLabelNames == 4

\* diff_names: 2 to MaxLabelNames labels
LabelNames(n) == [p \in 1..n |-> GenNames[p]]

\* the state at select.rs line 288 (simfilefix.rs 185): at most |diff_names|
\* charts, each with any label index of the range, in any order
LoopInit ==
    /\ \E names \in 2..MaxLabelNames :
          \E count \in 0..names :
             \E difficulties \in [1..count -> 0..(names - 1)] :
                sel = [pc |-> "resolve",
                       conf |-> [max |-> names, prefer |-> Spread,
                                 dedup |-> [dist |-> 0, bias_num |-> 1, bias_den |-> 2],
                                 diff_names |-> LabelNames(names)],
                       input |-> [i \in 1..count |-> Chart(i, GenNames[difficulties[i] + 1], i)],
                       simfiles |-> [i \in 1..count |-> Chart(i, GenNames[difficulties[i] + 1], i)],
                       difficulties |-> difficulties]
    /\ rk = RkIdle /\ cv = [pc |-> "idle"] /\ pl = [pc |-> "idle"]
    /\ sp = [pc |-> "idle"] /\ al = [pc |-> "idle"] /\ sim = [pc |-> "idle"]
    /\ fn = [pc |-> "idle"]

SpecLoop == LoopInit /\ [][resolve_conflicts_turn]_vars

\* the loop has no await and no exit but its `break`: a turn that can be
\* taken is taken
SpecLoopFair == SpecLoop /\ WF_vars(resolve_conflicts_turn)

\* C30: the conflict loop terminates for every list of at most |diff_names|
\* charts and every initial assignment of label indices, monotone or not.
C30_ConflictLoopTerminates ==
    (sel.pc = "resolve") ~> (sel.pc = "done")

\* the loop is over after at least two turns that moved a label, on an
\* assignment that was not monotone in chart order
C30_Witness ==
    /\ sel.pc = "done"
    /\ Len(sel.difficulties) = Len(sel.conf.diff_names)
    /\ \E i \in 2..Len(sel.input) :
          diff_index(sel.conf.diff_names, sel.input[i].difficulty)
              < diff_index(sel.conf.diff_names, sel.input[i - 1].difficulty)
    /\ Cardinality({i \in DOMAIN sel.input :
          diff_index(sel.conf.diff_names, sel.input[i].difficulty)
              # sel.difficulties[i]}) >= 2

=============================================================================
